---------------------------- MODULE Spec2Model ----------------------------
(***************************************************************************)
(* Cache-key derivation and cache-or-fetch lookups of the insurance        *)
(* verification backend.                                                   *)
(*                                                                         *)
(* Two applications are modelled.  app/main.py ("main") serves /api/verify *)
(* and /api/policy-info on top of RedisHelper and the in-process MockRedis.*)
(* The router application ("routes") serves the same paths through         *)
(* CacheService and RedisClient (api/routes/verification.py,               *)
(* services/policy_service.py).                                            *)
(*                                                                         *)
(* Strings are sequences of one-character strings; the few multi-character *)
(* tokens ("verification", a date in ISO form) stand for literal text that *)
(* contains neither upper-case letters, nor blanks, nor colons.            *)
(***************************************************************************)
EXTENDS Integers, Sequences, FiniteSets, TLC

VARIABLES
    reqA, reqB,      \* key derivation: the two requests compared
    derivation,      \* key derivation: which function was applied ("none" before)
    keyA, keyB,      \* key derivation: the keys derived for reqA and reqB
    app,             \* the application the process runs: "main" or "routes"
    api_key,         \* settings.PROVIDER_A_API_KEY is set (non-empty)
    clock,           \* time.time(), in ticks of TickSeconds
    data, expiry,    \* MockRedis.data and MockRedis.expiry (dicts)
    server,          \* the Redis server's keyspace behind RedisClient
    redis_up,        \* RedisClient.redis is connected and the server answers
    started,         \* number of lookups started so far
    last_set,        \* per key: time and ttl of the last store set (history)
    lookups,         \* the requests being served, one per slot
    extracted_policy_number,  \* chatbot: the policy number found in a message
    replies,         \* chatbot: the status each implementation reported for it
    policies,        \* policy list: the rows of the policies table, newest first
    listing,         \* policy list: the last answer of GET /policies
    verifications,   \* the verification records stored, by request_id
    policy_rows,     \* PolicyService: the rows of the policies table, by id
    policy_answer,   \* PolicyService: the last change and the last answer of a get
    chat_sessions,   \* simple_server.chat_sessions
    policies_db,     \* simple_server.policies_db
    chat_calls,      \* simple_server: handle_chat calls made so far, per session
    chat_answer,     \* simple_server: how the last request ended
    gemini_available \* simple_server: gemini_model is set and GEMINI_API_KEY is given

chatVars == <<extracted_policy_number, replies>>

listVars == <<policies, listing>>

policyVars == <<policy_rows, policy_answer>>

simpleVars == <<chat_sessions, policies_db, chat_calls, chat_answer, gemini_available>>

\* what a step of a lookup leaves alone, but for the verification records
otherVars == <<reqA, reqB, derivation, keyA, keyB, chatVars, listVars,
               policyVars, simpleVars>>

\* what a step of a lookup that stores no verification record leaves alone
keyVars == <<otherVars, verifications>>

\* what a step of key derivation leaves alone
lookupVars == <<app, api_key, clock, data, expiry, server, redis_up, started,
               last_set, lookups, chatVars, listVars, verifications,
               policyVars, simpleVars>>

vars == <<reqA, reqB, derivation, keyA, keyB,
          app, api_key, clock, data, expiry, server, redis_up, started,
          last_set, lookups, extracted_policy_number, replies, policies, listing,
          verifications, policy_rows, policy_answer,
          chat_sessions, policies_db, chat_calls, chat_answer, gemini_available>>

---------------------------------------------------------------------------
(* Strings *)

\* str.lower() on one character
LowerChar(c) ==
    IF c = "D" THEN "d" ELSE IF c = "E" THEN "e" ELSE c

\* str.lower()
Lower(s) == [i \in DOMAIN s |-> LowerChar(s[i])]

IsSpace(c) == c = " "

\* str.strip(): drop leading and trailing whitespace
RECURSIVE Strip(_)
Strip(s) ==
    IF s = <<>> THEN s
    ELSE IF IsSpace(Head(s)) THEN Strip(Tail(s))
    ELSE IF IsSpace(s[Len(s)]) THEN Strip(SubSeq(s, 1, Len(s) - 1))
    ELSE s

\* the normalization the key contract speaks of: lower-case and trimmed
NormalizeValue(s) == Strip(Lower(s))

\* hashlib.sha256(..).hexdigest(), taken as injective: the digest of a text is
\* a single opaque token that is determined by the text and determines it
sha256_hexdigest(text) == [sha256 |-> text]

\* Python's builtin hash() of a str, taken as injective within one process
py_hash(text) == [hash |-> text]

---------------------------------------------------------------------------
(* Key derivation *)

\* A key is the sequence of the parts its f-string is made of: pieces of
\* literal text, the characters of a value put in as it is, and the text of
\* a digest, a hash or a uuid.
Lit(text) == [lit |-> text]
Raw(s) == [i \in 1..Len(s) |-> Lit(s[i])]
Uuid(n) == [uuid |-> n]

\* CacheService.generate_verification_key
generate_verification_key(provider, member_id, dob, last_name) ==
    LET key_string == Lower(<<"verification", ":">> \o provider \o <<":">>
                            \o member_id \o <<":">> \o dob \o <<":">> \o last_name)
    IN  <<Lit("verification"), Lit(":"), sha256_hexdigest(key_string)>>

\* CacheService.generate_policy_key
generate_policy_key(member_id, dob, last_name) ==
    LET key_string == Lower(<<"policy", ":">> \o member_id \o <<":">>
                            \o dob \o <<":">> \o last_name)
    IN  <<Lit("policy"), Lit(":"), sha256_hexdigest(key_string)>>

\* sort order of the field names, as Python compares the strings
FieldRank(name) ==
    CASE name = "dob" -> 1
      [] name = "last_name" -> 2
      [] name = "member_id" -> 3
      [] name = "provider" -> 4

\* json.dumps(payload, sort_keys=True, separators=(",", ":")): the payload is a
\* dict, here the sequence of its <<field, value>> items in insertion order; the
\* dump lists the items by ascending field name, each value quoted as it is
json_dumps_sorted(payload) ==
    [i \in 1..Len(payload) |->
        LET j == CHOOSE j \in 1..Len(payload) :
                    Cardinality({k \in 1..Len(payload) :
                        FieldRank(payload[k][1]) < FieldRank(payload[j][1])}) = i - 1
        IN  payload[j]]

\* settings.CACHE_KEY_SECRET
CACHE_KEY_SECRET == <<"secret">>

\* cache.generate_cache_key
generate_cache_key(namespace, payload) ==
    LET serialized == json_dumps_sorted(payload)
        digest == sha256_hexdigest(serialized \o CACHE_KEY_SECRET)
    IN  <<Lit("iv"), Lit(":"), Lit(namespace), Lit(":"), digest>>

\* str(payload.model_dump()) of a VerifyRequest: the dict's repr, with the
\* fields in declaration order and every value quoted as it is
model_dump_str(provider, member_id, dob, last_name) ==
    << <<"provider", provider>>, <<"member_id", member_id>>,
       <<"dob", dob>>, <<"last_name", last_name>> >>

\* app/main.py verify: cache_key
verify_cache_key(provider, member_id, dob, last_name) ==
    <<Lit("cache"), Lit(":"), Lit("verify"), Lit(":"),
      py_hash(model_dump_str(provider, member_id, dob, last_name))>>

\* app/main.py policy_info: member_hash
policy_member_hash(member_id, dob) == py_hash(member_id \o dob)

\* app/main.py policy_info: cache_key
policy_cache_key(member_id, dob, last_name) ==
    <<Lit("cache"), Lit(":"), Lit("policy"), Lit(":"), policy_member_hash(member_id, dob)>>

\* app/main.py policy_info: policy_key
policy_record_key(member_id, dob) ==
    <<Lit("policies"), Lit(":"), policy_member_hash(member_id, dob)>>

\* PolicyService.get_policy_by_number: cache_key
policy_number_key(policy_number) ==
    <<Lit("policy_number"), Lit(":")>> \o Raw(policy_number)

---------------------------------------------------------------------------
(* Values *)

\* None and a present value: an Optional is a sequence of length 0 or 1
None == <<>>
Some(v) == <<v>>

\* dict assignment d[k] = v and del d[k], a dict being a function on its keys
Put(d, k, v) == [x \in DOMAIN d \cup {k} |-> IF x = k THEN v ELSE d[x]]
Drop(d, k) == [x \in DOMAIN d \ {k} |-> d[x]]

\* json.dumps and json.loads: the text is determined by the value and
\* determines it
json_dumps(v) == [json |-> v]
json_loads(text) == text.json

\* A provider response or a policy_info dict is the set of its <<key, value>>
\* items.  A datetime object among the values is the value "datetime", which
\* json.dumps refuses (TypeError).
json_serializable(d) == \A item \in d : item[2] # "datetime"

\* dict.get(k, default)
dict_get(d, k, default) ==
    IF \E item \in d : item[1] = k
    THEN (CHOOSE item \in d : item[1] = k)[2]
    ELSE default

\* dict.update(mapping)
dict_update(d, mapping) ==
    {item \in d : ~ \E m \in mapping : m[1] = item[1]} \cup mapping

\* bool(d) of a dict
Truthy(d) == d # {}

---------------------------------------------------------------------------
(* Configuration, time and bounds *)

\* settings.DEFAULT_CACHE_TTL, seconds
DEFAULT_CACHE_TTL == 3600

\* the expiry of the system:initialized key set at startup, seconds
SYSTEM_KEY_TTL == 86400

\* seconds of one clock tick
TickSeconds == 3600
\* the clock stops after this many ticks
MaxClock == 2
\* lookups served at the same time
NumSlots == 2
\* lookups started in one behaviour
MaxLookups == 2

Slots == 1..NumSlots

\* time.time()
now == clock * TickSeconds

---------------------------------------------------------------------------
(* MockRedis and RedisHelper (app/main.py) *)

\* MockRedis.set
\* a MockRedis.set that rebinds the dicts instead of assigning one key, so that
\* every other entry is lost: C13 tells it from MockRedis_set
MockRedis_set_rebinding(d, e, key, value, ex, t) ==
    [data   |-> [x \in {key} |-> value],
     expiry |-> IF ex # 0 THEN [x \in {key} |-> t + ex] ELSE << >>]

MockRedis_set(d, e, key, value, ex, t) ==
    [data   |-> Put(d, key, value),
     expiry |-> IF ex # 0 THEN Put(e, key, t + ex) ELSE e]

\* a MockRedis.get without the expiry test of lines 31-35: C7 tells it from
\* MockRedis_get
MockRedis_get_no_expiry(d, e, key, t) ==
    [value  |-> IF key \in DOMAIN d THEN Some(d[key]) ELSE None,
     data   |-> d,
     expiry |-> e]

\* MockRedis.get: the value, and the dicts after the lazy removal of an
\* expired key
MockRedis_get(d, e, key, t) ==
    IF key \in DOMAIN e /\ t > e[key]
    THEN [value |-> None, data |-> Drop(d, key), expiry |-> Drop(e, key)]
    ELSE [value  |-> IF key \in DOMAIN d THEN Some(d[key]) ELSE None,
          data   |-> d,
          expiry |-> e]

\* MockRedis.hset
MockRedis_hset(d, key, mapping) ==
    Put(d, key, dict_update(IF key \in DOMAIN d THEN d[key] ELSE {}, mapping))

\* a set_with_ttl that keeps an entry already stored under the key: C3 tells
\* it from set_with_ttl
set_with_ttl_nx(d, e, key, value, ttl, t) ==
    IF key \in DOMAIN d
    THEN [data |-> d, expiry |-> e]
    ELSE MockRedis_set(d, e, key, value, ttl, t)

\* RedisHelper.set_with_ttl
set_with_ttl(d, e, key, value, ttl, t) == MockRedis_set(d, e, key, value, ttl, t)

\* RedisHelper.get_string
get_string(d, e, key, t) == MockRedis_get(d, e, key, t)

\* RedisHelper.set_hash, called without ttl: every value becomes its text
set_hash(d, key, mapping) == MockRedis_hset(d, key, mapping)

\* the entry a reader of MockRedis can see under a key: present and not past
\* its expiry
MockLive(d, e, key, t) ==
    IF key \in DOMAIN d /\ ~ (key \in DOMAIN e /\ t > e[key])
    THEN Some([value |-> d[key],
               expire_at |-> IF key \in DOMAIN e THEN Some(e[key]) ELSE None])
    ELSE None

---------------------------------------------------------------------------
(* The Redis server, RedisClient and CacheService (router application) *)

\* GET on the server: a key set with SETEX is gone once its time has run out
Server_get(s, key, t) ==
    IF key \in DOMAIN s /\ (s[key].expire_at = None \/ t < s[key].expire_at[1])
    THEN Some(s[key].value)
    ELSE None

\* the entry a reader of the server can see under a key
ServerLive(s, key, t) ==
    IF Server_get(s, key, t) # None
    THEN Some([value |-> s[key].value, expire_at |-> s[key].expire_at])
    ELSE None

\* RedisClient.get: None when not connected and on any error of the call
RedisClient_get(s, up, key, t) ==
    IF ~ up
    THEN [raised |-> FALSE, value |-> None]
    ELSE LET value == Server_get(s, key, t)
         IN  [raised |-> FALSE,
              value  |-> IF value # None THEN Some(json_loads(value[1])) ELSE None]

\* RedisClient.set: False when not connected, when json.dumps refuses the
\* value and on any error of the call, as the one by which the server refuses
\* a SETEX with a negative expire time; ttl = 0 stands for None
RedisClient_set(s, up, key, value, ttl, t) ==
    IF ~ up \/ ~ json_serializable(value) \/ ttl < 0
    THEN [raised |-> FALSE, ok |-> FALSE, server |-> s]
    ELSE [raised |-> FALSE, ok |-> TRUE,
          server |-> Put(s, key, [value |-> json_dumps(value),
                                  expire_at |-> IF ttl # 0 THEN Some(t + ttl) ELSE None])]

\* a get_verification without the try/except of lines 48-54, so that the
\* failure of the read reaches the handler: C8 tells it from get_verification
get_verification_raising(s, up, key, t) ==
    IF ~ up
    THEN [raised |-> TRUE, value |-> None]
    ELSE RedisClient_get(s, up, key, t)

\* CacheService.get_verification
get_verification(s, up, key, t) ==
    LET r == RedisClient_get(s, up, key, t)
    IN  IF r.raised THEN [raised |-> FALSE, value |-> None] ELSE r

\* CacheService.get_policy
get_policy(s, up, key, t) ==
    LET r == RedisClient_get(s, up, key, t)
    IN  IF r.raised THEN [raised |-> FALSE, value |-> None] ELSE r

\* a cache_verification without the try/except of lines 58-65, so that the
\* failure of the write reaches the handler: C9 tells it from
\* cache_verification
cache_verification_raising(s, up, key, value, ttl, t) ==
    IF ~ up
    THEN [raised |-> TRUE, ok |-> FALSE, server |-> s]
    ELSE RedisClient_set(s, up, key, value,
                         IF ttl # 0 THEN ttl ELSE DEFAULT_CACHE_TTL, t)

\* CacheService.cache_verification; ttl = 0 stands for None
cache_verification(s, up, key, value, ttl, t) ==
    LET r == RedisClient_set(s, up, key, value,
                             IF ttl # 0 THEN ttl ELSE DEFAULT_CACHE_TTL, t)
    IN  IF r.raised THEN [raised |-> FALSE, ok |-> FALSE, server |-> s] ELSE r

\* a cache_policy without the default of line 82, which hands the caller's
\* ttl to RedisClient.set as it is: C16 tells it from cache_policy
cache_policy_no_default(s, up, key, value, ttl, t) ==
    RedisClient_set(s, up, key, value, ttl, t)

\* CacheService.cache_policy; ttl = 0 stands for None
cache_policy(s, up, key, value, ttl, t) ==
    LET r == RedisClient_set(s, up, key, value,
                             IF ttl # 0 THEN ttl ELSE DEFAULT_CACHE_TTL, t)
    IN  IF r.raised THEN [raised |-> FALSE, ok |-> FALSE, server |-> s] ELSE r

---------------------------------------------------------------------------
(* Providers *)

\* ProviderClient.verify (app/main.py): the stubbed provider response
ProviderClient_verify(key_set) ==
    [status |-> "verified", policy_number |-> "POL12345",
     source |-> IF key_set THEN "provider" ELSE "mock"]

\* payload.member_id[-4:]
Last4(s) == SubSeq(s, IF Len(s) > 4 THEN Len(s) - 3 ELSE 1, Len(s))

\* ProviderClient.get_policy_info (app/main.py): the stubbed policy, which
\* expires 365 days after the call
ProviderClient_get_policy_info(member_id, key_set, t) ==
    [policy_number   |-> <<"POL-">> \o Last4(member_id) \o <<"-001">>,
     coverage_status |-> "active",
     expiry_date     |-> t + 365 * 86400,
     source          |-> IF key_set THEN "provider" ELSE "mock"]

\* what the provider's HTTP endpoint may answer
ProviderStatuses == {200, 404, 401, 500}
EmptyBody == {}
ProviderBodies ==
    { EmptyBody,
      { <<"status", "verified">>, <<"policy_number", "POL-1">> } }

\* ProviderService.verify_insurance, given the HTTP status and the JSON body
ProviderService_verify_insurance(status, body) ==
    IF status = 200 THEN [raised |-> FALSE, value |-> body]
    ELSE IF status = 404
    THEN [raised |-> FALSE,
          value  |-> { <<"status", "not_found">>,
                       <<"message", "Insurance not found">>,
                       <<"verified", "False">> }]
    ELSE [raised |-> TRUE, value |-> {}]

\* VerificationService.verify_with_provider: the provider configuration is
\* read from the database, the provider is called and the verification record
\* is stored in the database; any failure is raised again
verify_with_provider(config_found, status, body, stored) ==
    IF ~ config_found THEN [raised |-> TRUE, value |-> {}]
    ELSE LET provider_response == ProviderService_verify_insurance(status, body)
         IN  IF provider_response.raised \/ ~ stored
             THEN [raised |-> TRUE, value |-> {}]
             ELSE provider_response

\* the policy rows the database may hold for a member, as the policy_info
\* dict PolicyService builds from a row: expiry_date and verified_at are
\* nullable DateTime columns
PolicyRows ==
    { { <<"policy_number", "POL-1">>, <<"coverage_status", "active">>,
        <<"expiry_date", "None">>, <<"source", "provider">>,
        <<"verified_at", "None">> },
      { <<"policy_number", "POL-2">>, <<"coverage_status", "pending">>,
        <<"expiry_date", "datetime">>, <<"source", "manual">>,
        <<"verified_at", "datetime">> } }

---------------------------------------------------------------------------
(* Lookups *)

\* the requests the lookups are made with
LookupRequests ==
    { [provider |-> <<"d">>, member_id |-> <<"d">>, dob |-> <<"1990-01-01">>, last_name |-> <<"D">>],
      [provider |-> <<"d">>, member_id |-> <<"d">>, dob |-> <<"1990-01-01">>, last_name |-> <<"d">>],
      [provider |-> <<"d">>, member_id |-> <<"e">>, dob |-> <<"1990-01-01">>, last_name |-> <<"d">>] }

NoRequest ==
    [provider |-> <<>>, member_id |-> <<>>, dob |-> <<>>, last_name |-> <<>>]

\* A lookup: the handler's position (pc) and locals, and a record of what it
\* has done so far.
\*   had          the entry visible under the key when the lookup began
\*   deadline     write time + ttl of the last set under the key, at that time
\*   reads, fetches, sets, hsets   calls of store get, fetch, store set, hset
\*   not_found    the provider answered 404, or the database had no row
\*   wrote_at     the time of the set call
\*   stored_after the entry visible under the key right after the set call
IdleLookup ==
    [pc |-> "idle", path |-> "none", req |-> NoRequest, force |-> FALSE,
     request_id |-> 0, key |-> <<>>, began_at |-> 0,
     had |-> None, deadline |-> None,
     reads |-> 0, read_failed |-> FALSE, cached |-> None,
     fetches |-> 0, fetch_failed |-> FALSE, not_found |-> FALSE, fetched |-> None,
     sets |-> 0, hsets |-> 0, wrote_at |-> 0, write_failed |-> FALSE,
     stored_after |-> None,
     result |-> None]

\* the entry a reader can see under a key, in the running application
Live(key) ==
    IF app = "main" THEN MockLive(data, expiry, key, now)
    ELSE ServerLive(server, key, now)

\* write time + ttl of the last set call under a key
Deadline(key) ==
    IF key \in DOMAIN last_set
    THEN Some(last_set[key].at + last_set[key].ttl)
    ELSE None

\* a response: status "ok" with the source and the value returned, or an error
\* or not-found answer without a value
Ok(source, value) == [status |-> "ok", source |-> source, value |-> Some(value)]
Failure(status) == [status |-> status, source |-> "none", value |-> None]

\* a new request is served in the first slot that is not busy
Free(l) ==
    /\ started < MaxLookups
    /\ lookups[l].pc \in {"idle", "done"}
    /\ \A k \in Slots : k < l => lookups[k].pc \notin {"idle", "done"}

Begin(path, r, force, key) ==
    [IdleLookup EXCEPT !.path = path, !.req = r, !.force = force,
                       !.request_id = started + 1, !.key = key,
                       !.began_at = now,
                       !.had = Live(key), !.deadline = Deadline(key)]

---------------------------------------------------------------------------
(* app/main.py: verify and policy_info over RedisHelper and MockRedis.     *)
(* MockRedis never suspends, so a handler runs without interruption up to  *)
(* the provider call and again from the provider's answer to the response. *)

\* VerifyResponse(**data) and PolicyInfoResponse(**data): the response is the
\* cached body, its source the one stored in it
CachedResponse(body) == Ok(body.source, body)

\* verify, lines 61-72: the key, the cache read unless force_refresh, and the
\* provider call
verify_begin(l, r, force) ==
    /\ app = "main"
    /\ Free(l)
    /\ LET key == verify_cache_key(r.provider, r.member_id, r.dob, r.last_name)
           lk  == Begin("verify", r, force, key)
           cached == get_string(data, expiry, key, now)
       IN  IF ~ force
           THEN /\ data' = cached.data
                /\ expiry' = cached.expiry
                /\ lookups' = [lookups EXCEPT ![l] =
                      IF cached.value # None    \* a JSON text is never empty
                      THEN [lk EXCEPT !.pc = "done", !.reads = 1,
                                      !.cached = cached.value,
                                      !.result = Some(CachedResponse(json_loads(cached.value[1])))]
                      ELSE [lk EXCEPT !.pc = "fetch", !.reads = 1, !.fetches = 1]]
           ELSE /\ UNCHANGED <<data, expiry>>
                /\ lookups' = [lookups EXCEPT ![l] =
                      [lk EXCEPT !.pc = "fetch", !.fetches = 1]]
    /\ started' = started + 1
    /\ UNCHANGED <<app, api_key, clock, server, redis_up, last_set>>
    /\ UNCHANGED keyVars

\* a verify whose failing provider call leaves an error entry under the cache
\* key: C4 tells it from verify_provider_error
verify_provider_error_caching(l) ==
    /\ app = "main"
    /\ lookups[l].pc = "fetch"
    /\ lookups[l].path = "verify"
    /\ LET lk == lookups[l]
           c  == set_with_ttl(data, expiry, lk.key, json_dumps([status |-> "error"]),
                              DEFAULT_CACHE_TTL, now)
       IN  /\ data' = c.data
           /\ expiry' = c.expiry
           /\ lookups' = [lookups EXCEPT ![l] =
                 [lk EXCEPT !.pc = "done", !.fetch_failed = TRUE,
                            !.result = Some(Failure("error"))]]
    /\ UNCHANGED <<app, api_key, clock, server, redis_up, started, last_set>>
    /\ UNCHANGED keyVars

\* verify, lines 73-74: the provider call raised
verify_provider_error(l) ==
    /\ app = "main"
    /\ lookups[l].pc = "fetch"
    /\ lookups[l].path = "verify"
    /\ lookups' = [lookups EXCEPT ![l] =
          [@ EXCEPT !.pc = "done", !.fetch_failed = TRUE,
                    !.result = Some(Failure("error"))]]
    /\ UNCHANGED <<app, api_key, clock, data, expiry, server, redis_up, started, last_set>>
    /\ UNCHANGED keyVars

\* a handler tail that caches the response and stores no record: C10 tells it
\* from cache_and_record
cache_and_record_cache_only(l, resp, record_key, record_data) ==
    LET lk == lookups[l]
        c  == set_with_ttl(data, expiry, lk.key, json_dumps(resp), DEFAULT_CACHE_TTL, now)
    IN  /\ data' = c.data
        /\ expiry' = c.expiry
        /\ last_set' = Put(last_set, lk.key, [at |-> now, ttl |-> DEFAULT_CACHE_TTL])
        /\ lookups' = [lookups EXCEPT ![l] =
              [lk EXCEPT !.pc = "done", !.fetched = Some(resp),
                         !.sets = @ + 1, !.wrote_at = now,
                         !.stored_after = MockLive(c.data, c.expiry, lk.key, now),
                         !.result = Some(Ok(resp.source, resp))]]

\* verify lines 86-105 and policy_info lines 150-167: the response is cached
\* with the default TTL, the record is stored as a hash, the response returned
cache_and_record(l, resp, record_key, record_data) ==
    LET lk == lookups[l]
        c  == set_with_ttl(data, expiry, lk.key, json_dumps(resp), DEFAULT_CACHE_TTL, now)
        d2 == set_hash(c.data, record_key, record_data)
    IN  /\ data' = d2
        /\ expiry' = c.expiry
        /\ last_set' = Put(last_set, lk.key, [at |-> now, ttl |-> DEFAULT_CACHE_TTL])
        /\ lookups' = [lookups EXCEPT ![l] =
              [lk EXCEPT !.pc = "done", !.fetched = Some(resp),
                         !.sets = @ + 1, !.hsets = @ + 1, !.wrote_at = now,
                         !.stored_after = MockLive(d2, c.expiry, lk.key, now),
                         !.result = Some(Ok(resp.source, resp))]]

\* verify, lines 76-105: the response, the cache write, the verification
\* record
verify_complete(l) ==
    /\ app = "main"
    /\ lookups[l].pc = "fetch"
    /\ lookups[l].path = "verify"
    /\ LET lk == lookups[l]
           provider_response == ProviderClient_verify(api_key)
           resp == [status |-> provider_response.status,
                    verified_at |-> now,
                    source |-> provider_response.source,
                    provider_response |-> provider_response]
           verification_key == <<Lit("verifications"), Lit(":"), Uuid(lk.request_id)>>
           verification_data ==
               { <<"id", lk.request_id>>, <<"request_id", lk.request_id>>,
                 <<"provider_id", "provider_a">>, <<"source", "provider">>,
                 <<"verified_at", now>> }
       IN  cache_and_record(l, resp, verification_key, verification_data)
    /\ UNCHANGED <<app, api_key, clock, server, redis_up, started>>
    /\ UNCHANGED keyVars

\* policy_info, lines 116-129
policy_info_begin(l, r, force) ==
    /\ app = "main"
    /\ Free(l)
    /\ LET key == policy_cache_key(r.member_id, r.dob, r.last_name)
           lk  == Begin("policy", r, force, key)
           cached == get_string(data, expiry, key, now)
       IN  IF ~ force
           THEN /\ data' = cached.data
                /\ expiry' = cached.expiry
                /\ lookups' = [lookups EXCEPT ![l] =
                      IF cached.value # None    \* a JSON text is never empty
                      THEN [lk EXCEPT !.pc = "done", !.reads = 1,
                                      !.cached = cached.value,
                                      !.result = Some(CachedResponse(json_loads(cached.value[1])))]
                      ELSE [lk EXCEPT !.pc = "fetch", !.reads = 1, !.fetches = 1]]
           ELSE /\ UNCHANGED <<data, expiry>>
                /\ lookups' = [lookups EXCEPT ![l] =
                      [lk EXCEPT !.pc = "fetch", !.fetches = 1]]
    /\ started' = started + 1
    /\ UNCHANGED <<app, api_key, clock, server, redis_up, last_set>>
    /\ UNCHANGED keyVars

\* policy_info, lines 130-131
policy_info_provider_error(l) ==
    /\ app = "main"
    /\ lookups[l].pc = "fetch"
    /\ lookups[l].path = "policy"
    /\ lookups' = [lookups EXCEPT ![l] =
          [@ EXCEPT !.pc = "done", !.fetch_failed = TRUE,
                    !.result = Some(Failure("error"))]]
    /\ UNCHANGED <<app, api_key, clock, data, expiry, server, redis_up, started, last_set>>
    /\ UNCHANGED keyVars

\* policy_info, lines 133-167
policy_info_complete(l) ==
    /\ app = "main"
    /\ lookups[l].pc = "fetch"
    /\ lookups[l].path = "policy"
    /\ LET lk == lookups[l]
           policy == ProviderClient_get_policy_info(lk.req.member_id, api_key, now)
           resp == [policy_number |-> policy.policy_number,
                    coverage_status |-> policy.coverage_status,
                    expiry_date |-> policy.expiry_date,
                    source |-> policy.source]
           policy_key == policy_record_key(lk.req.member_id, lk.req.dob)
           policy_data ==
               { <<"id", lk.request_id>>,
                 <<"member_id", policy_member_hash(lk.req.member_id, lk.req.dob)>>,
                 <<"policy_number", policy.policy_number>>,
                 <<"coverage_status", policy.coverage_status>>,
                 <<"expiry_date", policy.expiry_date>>,
                 <<"source", policy.source>>,
                 <<"verified_at", now>> }
       IN  cache_and_record(l, resp, policy_key, policy_data)
    /\ UNCHANGED <<app, api_key, clock, server, redis_up, started>>
    /\ UNCHANGED keyVars

---------------------------------------------------------------------------
(* Router application: verify_insurance and PolicyService.get_policy_info  *)
(* over CacheService and RedisClient.  Every await is a real call, so the  *)
(* cache read, the fetch and the cache write are separate steps.           *)

\* verify_insurance, lines 38-65: the key and the cache read
verify_insurance_read(l, r) ==
    /\ app = "routes"
    /\ Free(l)
    /\ LET cache_key == generate_verification_key(r.provider, r.member_id, r.dob, r.last_name)
           lk == [Begin("verify", r, FALSE, cache_key) EXCEPT
                     !.reads = 1, !.read_failed = ~ redis_up]
           cached_result == get_verification(server, redis_up, cache_key, now)
       IN  lookups' = [lookups EXCEPT ![l] =
              IF cached_result.raised
              THEN [lk EXCEPT !.pc = "done", !.result = Some(Failure("error"))]
              ELSE IF cached_result.value # None /\ Truthy(cached_result.value[1])
              THEN [lk EXCEPT !.pc = "done", !.cached = cached_result.value,
                              !.result = Some(Ok("cache", cached_result.value[1]))]
              ELSE [lk EXCEPT !.pc = "fetch", !.cached = cached_result.value,
                              !.fetches = 1]]
    /\ started' = started + 1
    /\ UNCHANGED <<app, api_key, clock, data, expiry, server, redis_up, last_set>>
    /\ UNCHANGED keyVars

\* a verify_insurance that answers as soon as the provider has answered and
\* writes the cache entry afterwards: C21 tells it from verify_insurance_fetch
verify_insurance_fetch_answering(l) ==
    /\ app = "routes"
    /\ lookups[l].pc = "fetch"
    /\ lookups[l].path = "verify"
    /\ \E config_found \in BOOLEAN, status \in ProviderStatuses,
          body \in ProviderBodies, stored \in BOOLEAN :
          LET verification_result == verify_with_provider(config_found, status, body, stored)
          IN  /\ verifications' =
                     IF verification_result.raised THEN verifications
                     ELSE verifications \cup {lookups[l].request_id}
              /\ lookups' = [lookups EXCEPT ![l] =
                 IF verification_result.raised
                 THEN [@ EXCEPT !.pc = "done", !.fetch_failed = TRUE,
                                !.not_found = config_found /\ status = 404,
                                !.result = Some(Failure("error"))]
                 ELSE [@ EXCEPT !.pc = "write",
                                !.not_found = status = 404,
                                !.fetched = Some(verification_result.value),
                                !.result = Some(Ok("provider", verification_result.value))]]
    /\ UNCHANGED <<app, api_key, clock, data, expiry, server, redis_up, started, last_set>>
    /\ UNCHANGED otherVars

\* verify_insurance, lines 66-72 and 85-90: verify_with_provider returns,
\* having stored the verification record under the request_id, or raises
verify_insurance_fetch(l) ==
    /\ app = "routes"
    /\ lookups[l].pc = "fetch"
    /\ lookups[l].path = "verify"
    /\ \E config_found \in BOOLEAN, status \in ProviderStatuses,
          body \in ProviderBodies, stored \in BOOLEAN :
          LET verification_result == verify_with_provider(config_found, status, body, stored)
          IN  /\ verifications' =
                     IF verification_result.raised THEN verifications
                     ELSE verifications \cup {lookups[l].request_id}
              /\ lookups' = [lookups EXCEPT ![l] =
                 IF verification_result.raised
                 THEN [@ EXCEPT !.pc = "done", !.fetch_failed = TRUE,
                                !.not_found = config_found /\ status = 404,
                                !.result = Some(Failure("error"))]
                 ELSE [@ EXCEPT !.pc = "write",
                                !.not_found = status = 404,
                                !.fetched = Some(verification_result.value)]]
    /\ UNCHANGED <<app, api_key, clock, data, expiry, server, redis_up, started, last_set>>
    /\ UNCHANGED otherVars

\* verify_insurance, lines 74-83: the cache write and the response
verify_insurance_write(l) ==
    /\ app = "routes"
    /\ lookups[l].pc = "write"
    /\ lookups[l].path = "verify"
    /\ LET lk == lookups[l]
           w == cache_verification(server, redis_up, lk.key, lk.fetched[1], 0, now)
       IN  /\ server' = w.server
           /\ last_set' = IF w.ok
                          THEN Put(last_set, lk.key, [at |-> now, ttl |-> DEFAULT_CACHE_TTL])
                          ELSE last_set
           /\ lookups' = [lookups EXCEPT ![l] =
                 IF w.raised
                 THEN [lk EXCEPT !.pc = "done", !.sets = @ + 1, !.wrote_at = now,
                                 !.write_failed = TRUE,
                                 !.result = Some(Failure("error"))]
                 ELSE [lk EXCEPT !.pc = "done", !.sets = @ + 1, !.wrote_at = now,
                                 !.write_failed = ~ w.ok,
                                 !.stored_after = ServerLive(w.server, lk.key, now),
                                 !.result = Some(Ok("provider", lk.fetched[1]))]]
    /\ UNCHANGED <<app, api_key, clock, data, expiry, redis_up, started>>
    /\ UNCHANGED keyVars

\* PolicyService.get_policy_info, lines 34-41: the key and the cache read
get_policy_info_read(l, r) ==
    /\ app = "routes"
    /\ Free(l)
    /\ LET cache_key == generate_policy_key(r.member_id, r.dob, r.last_name)
           lk == [Begin("policy", r, FALSE, cache_key) EXCEPT
                     !.reads = 1, !.read_failed = ~ redis_up]
           cached_policy == get_policy(server, redis_up, cache_key, now)
       IN  lookups' = [lookups EXCEPT ![l] =
              IF cached_policy.raised
              THEN [lk EXCEPT !.pc = "done", !.result = Some(Failure("not_found"))]
              ELSE IF cached_policy.value # None /\ Truthy(cached_policy.value[1])
              THEN [lk EXCEPT !.pc = "done", !.cached = cached_policy.value,
                              !.result = Some(Ok(dict_get(cached_policy.value[1], "source", "provider"),
                                                 cached_policy.value[1]))]
              ELSE [lk EXCEPT !.pc = "fetch", !.cached = cached_policy.value,
                              !.fetches = 1]]
    /\ started' = started + 1
    /\ UNCHANGED <<app, api_key, clock, data, expiry, server, redis_up, last_set>>
    /\ UNCHANGED keyVars

\* get_policy_info, lines 43-57: the database query by member hash; no row,
\* or a failed query, gives None
get_policy_info_query(l) ==
    /\ app = "routes"
    /\ lookups[l].pc = "fetch"
    /\ lookups[l].path = "policy"
    /\ \/ \E policy_info \in PolicyRows :
             lookups' = [lookups EXCEPT ![l] =
                [@ EXCEPT !.pc = "write", !.fetched = Some(policy_info)]]
       \/ lookups' = [lookups EXCEPT ![l] =
             [@ EXCEPT !.pc = "done", !.fetch_failed = TRUE, !.not_found = TRUE,
                       !.result = Some(Failure("not_found"))]]
    /\ UNCHANGED <<app, api_key, clock, data, expiry, server, redis_up, started, last_set>>
    /\ UNCHANGED keyVars

\* get_policy_info, lines 59-63: the cache write and the return
get_policy_info_write(l) ==
    /\ app = "routes"
    /\ lookups[l].pc = "write"
    /\ lookups[l].path = "policy"
    /\ LET lk == lookups[l]
           w == cache_policy(server, redis_up, lk.key, lk.fetched[1], 0, now)
       IN  /\ server' = w.server
           /\ last_set' = IF w.ok
                          THEN Put(last_set, lk.key, [at |-> now, ttl |-> DEFAULT_CACHE_TTL])
                          ELSE last_set
           /\ lookups' = [lookups EXCEPT ![l] =
                 IF w.raised
                 THEN [lk EXCEPT !.pc = "done", !.sets = @ + 1, !.wrote_at = now,
                                 !.write_failed = TRUE,
                                 !.result = Some(Failure("not_found"))]
                 ELSE [lk EXCEPT !.pc = "done", !.sets = @ + 1, !.wrote_at = now,
                                 !.write_failed = ~ w.ok,
                                 !.stored_after = ServerLive(w.server, lk.key, now),
                                 !.result = Some(Ok(dict_get(lk.fetched[1], "source", "provider"),
                                                    lk.fetched[1]))]]
    /\ UNCHANGED <<app, api_key, clock, data, expiry, redis_up, started>>
    /\ UNCHANGED keyVars

---------------------------------------------------------------------------
(* Environment *)

\* time passes
Tick ==
    /\ clock < MaxClock
    /\ clock' = clock + 1
    /\ UNCHANGED <<app, api_key, data, expiry, server, redis_up, started, lookups, last_set>>
    /\ UNCHANGED keyVars

\* the Redis server becomes unreachable
RedisDown ==
    /\ app = "routes"
    /\ redis_up
    /\ redis_up' = FALSE
    /\ UNCHANGED <<app, api_key, clock, data, expiry, server, started, lookups, last_set>>
    /\ UNCHANGED keyVars

\* the Redis server answers again
RedisUp ==
    /\ app = "routes"
    /\ ~ redis_up
    /\ redis_up' = TRUE
    /\ UNCHANGED <<app, api_key, clock, data, expiry, server, started, lookups, last_set>>
    /\ UNCHANGED keyVars

---------------------------------------------------------------------------
\* no message has been handled, no list has been asked for
NoChat == extracted_policy_number = << >> /\ replies = << >>
NoListing == policies = << >> /\ listing = << >>
NoRecords == verifications = {}
NoPolicyRows == policy_rows = << >> /\ policy_answer = << >>
NoSimple ==
    /\ chat_sessions = << >>
    /\ policies_db = << >>
    /\ chat_calls = << >>
    /\ chat_answer = << >>
    /\ gemini_available = FALSE

(* The lookup specification *)

SystemKey == <<Lit("system"), Lit(":"), Lit("initialized")>>

\* app/main.py after startup_event: init_redis has set system:initialized in
\* MockRedis.  The router application after init_redis: RedisClient connected.
Init ==
    /\ app \in {"main", "routes"}
    /\ api_key \in (IF app = "main" THEN BOOLEAN ELSE {FALSE})
    /\ clock = 0
    /\ LET c == MockRedis_set(<<>>, <<>>, SystemKey, "true", SYSTEM_KEY_TTL, 0)
       IN  IF app = "main"
           THEN data = c.data /\ expiry = c.expiry
           ELSE data = <<>> /\ expiry = <<>>
    /\ server = <<>>
    /\ redis_up = TRUE
    /\ started = 0
    /\ lookups = [l \in Slots |-> IdleLookup]
    /\ last_set = <<>>
    /\ reqA = NoRequest
    /\ reqB = NoRequest
    /\ derivation = "none"
    /\ keyA = <<>>
    /\ keyB = <<>>
    /\ NoChat
    /\ NoListing
    /\ NoRecords
    /\ NoPolicyRows
    /\ NoSimple

Next ==
    \/ \E l \in Slots, r \in LookupRequests, force \in BOOLEAN : verify_begin(l, r, force)
    \/ \E l \in Slots : verify_provider_error(l)
    \/ \E l \in Slots : verify_complete(l)
    \/ \E l \in Slots, r \in LookupRequests, force \in BOOLEAN : policy_info_begin(l, r, force)
    \/ \E l \in Slots : policy_info_provider_error(l)
    \/ \E l \in Slots : policy_info_complete(l)
    \/ \E l \in Slots, r \in LookupRequests : verify_insurance_read(l, r)
    \/ \E l \in Slots : verify_insurance_fetch(l)
    \/ \E l \in Slots : verify_insurance_write(l)
    \/ \E l \in Slots, r \in LookupRequests : get_policy_info_read(l, r)
    \/ \E l \in Slots : get_policy_info_query(l)
    \/ \E l \in Slots : get_policy_info_write(l)
    \/ Tick
    \/ RedisDown
    \/ RedisUp

Spec == Init /\ [][Next]_vars

---------------------------------------------------------------------------
(* Key derivation applied to two requests drawn from bounded sets *)

ProviderSamples == { <<"d">>, <<"D">>, <<"d", ":">> }
MemberIdSamples == { <<"d">>, <<":", "d">>, <<"d", " ">>, <<"e">> }
LastNameSamples == { <<"d">>, <<"D">>, <<" ", "d">>, <<"e">> }
DobSamples      == { <<"1990-01-01">>, <<"1991-02-02">> }
PolicyNumberSamples ==
    { <<"P", "O", "L", "0", "0", "1">>, <<"P", "O", "L", "0", "0", "2">> }

KeyRequests ==
    [provider : ProviderSamples, member_id : MemberIdSamples,
     dob : DobSamples, last_name : LastNameSamples,
     policy_number : PolicyNumberSamples]

\* the items of a request as a dict, inserted in declaration order or in the
\* opposite order
PayloadOrders == {"declared", "reversed"}
PayloadOf(r, order) ==
    LET declared == << <<"provider", r.provider>>, <<"member_id", r.member_id>>,
                       <<"dob", r.dob>>, <<"last_name", r.last_name>> >>
    IN  IF order = "declared" THEN declared
        ELSE [i \in 1..4 |-> declared[5 - i]]

\* the identity fields a derivation is given
FieldsOf(d) ==
    IF d \in {"policy", "main_policy"}
    THEN {"member_id", "dob", "last_name"}
    ELSE IF d = "policy_number"
    THEN {"policy_number"}
    ELSE {"provider", "member_id", "dob", "last_name"}

\* a request's identity fields after normalization
Normalized(r, d) == [f \in FieldsOf(d) |-> NormalizeValue(r[f])]

KeyInit ==
    /\ reqA \in KeyRequests
    /\ reqB \in KeyRequests
    /\ derivation = "none"
    /\ keyA = <<>>
    /\ keyB = <<>>
    /\ app = "none"
    /\ api_key = FALSE
    /\ clock = 0
    /\ data = <<>>
    /\ expiry = <<>>
    /\ server = <<>>
    /\ redis_up = TRUE
    /\ started = 0
    /\ last_set = <<>>
    /\ lookups = [l \in Slots |-> IdleLookup]
    /\ NoChat
    /\ NoListing
    /\ NoRecords
    /\ NoPolicyRows
    /\ NoSimple

DeriveVerificationKey ==
    /\ derivation = "none"
    /\ derivation' = "verification"
    /\ keyA' = generate_verification_key(reqA.provider, reqA.member_id, reqA.dob, reqA.last_name)
    /\ keyB' = generate_verification_key(reqB.provider, reqB.member_id, reqB.dob, reqB.last_name)
    /\ UNCHANGED <<reqA, reqB>>
    /\ UNCHANGED lookupVars

DerivePolicyKey ==
    /\ derivation = "none"
    /\ derivation' = "policy"
    /\ keyA' = generate_policy_key(reqA.member_id, reqA.dob, reqA.last_name)
    /\ keyB' = generate_policy_key(reqB.member_id, reqB.dob, reqB.last_name)
    /\ UNCHANGED <<reqA, reqB>>
    /\ UNCHANGED lookupVars

DeriveGenericKey ==
    /\ derivation = "none"
    /\ \E oa \in PayloadOrders, ob \in PayloadOrders :
        /\ keyA' = generate_cache_key("verification", PayloadOf(reqA, oa))
        /\ keyB' = generate_cache_key("verification", PayloadOf(reqB, ob))
    /\ derivation' = "generic"
    /\ UNCHANGED <<reqA, reqB>>
    /\ UNCHANGED lookupVars

DeriveMainVerifyKey ==
    /\ derivation = "none"
    /\ derivation' = "main_verify"
    /\ keyA' = verify_cache_key(reqA.provider, reqA.member_id, reqA.dob, reqA.last_name)
    /\ keyB' = verify_cache_key(reqB.provider, reqB.member_id, reqB.dob, reqB.last_name)
    /\ UNCHANGED <<reqA, reqB>>
    /\ UNCHANGED lookupVars

DeriveMainPolicyKey ==
    /\ derivation = "none"
    /\ derivation' = "main_policy"
    /\ keyA' = policy_cache_key(reqA.member_id, reqA.dob, reqA.last_name)
    /\ keyB' = policy_cache_key(reqB.member_id, reqB.dob, reqB.last_name)
    /\ UNCHANGED <<reqA, reqB>>
    /\ UNCHANGED lookupVars

\* get_policy_by_number, line 119
DerivePolicyNumberKey ==
    /\ derivation = "none"
    /\ derivation' = "policy_number"
    /\ keyA' = policy_number_key(reqA.policy_number)
    /\ keyB' = policy_number_key(reqB.policy_number)
    /\ UNCHANGED <<reqA, reqB>>
    /\ UNCHANGED lookupVars

KeyNext ==
    \/ DerivePolicyNumberKey
    \/ DeriveVerificationKey
    \/ DerivePolicyKey
    \/ DeriveGenericKey
    \/ DeriveMainVerifyKey
    \/ DeriveMainPolicyKey

SpecKey == KeyInit /\ [][KeyNext]_vars

---------------------------------------------------------------------------
(* Claims about key derivation *)

\* C5: for every derivation, two requests whose identity fields are equal
\* after lower-casing and trimming every value derive equal keys.
C5_KeyInvariantUnderNormalization ==
    (derivation # "none" /\ Normalized(reqA, derivation) = Normalized(reqB, derivation))
        => keyA = keyB

\* C6: with injective digests, two requests whose normalized identity fields
\* differ in at least one field derive different keys, for the keys of
\* CacheService and of the verify and policy_info handlers of app/main.py.
C6_KeyInjectiveOnNormalized ==
    (/\ derivation \in {"verification", "policy", "main_verify", "main_policy"}
     /\ Normalized(reqA, derivation) # Normalized(reqB, derivation))
        => keyA # keyB


---------------------------------------------------------------------------
(* Claims about lookups *)

\* the key of the record a handler of app/main.py stores besides the cache
\* entry
RecordKeyOf(lk) ==
    IF lk.path = "verify" THEN <<Lit("verifications"), Lit(":"), Uuid(lk.request_id)>>
    ELSE IF lk.path = "policy" THEN policy_record_key(lk.req.member_id, lk.req.dob)
    ELSE << >>

Done(l) == lookups[l].pc = "done"

\* the lookup fetched and the fetch returned a value
Fetched(l) == lookups[l].fetched # None

\* the lookup was answered from the cache, without a fetch
ServedFromCache(l) ==
    Done(l) /\ lookups[l].fetches = 0 /\ lookups[l].cached # None

\* C1: a lookup without force_refresh whose key held an unexpired entry when
\* the store was read (and the read did not fail) returns the stored value
\* with source "cache" and never calls the provider.
C1_HitReturnsStoredValueAsCache ==
    \A l \in Slots :
        (/\ lookups[l].reads = 1
         /\ ~ lookups[l].force
         /\ ~ lookups[l].read_failed
         /\ lookups[l].had # None)
        => /\ Done(l)
           /\ lookups[l].fetches = 0
           /\ lookups[l].result[1].status = "ok"
           /\ lookups[l].result[1].source = "cache"
           /\ lookups[l].result[1].value = Some(json_loads(lookups[l].had[1].value))

\* C2: a finished lookup that found no entry under its key, fetched
\* successfully (and whose store write did not fail) called the fetch exactly
\* once, left the fetched value under its key with the default TTL, and
\* answered with source "provider".
C2_MissFetchesOnceWritesAndSaysProvider ==
    \A l \in Slots :
        (/\ Done(l)
         /\ lookups[l].had = None
         /\ Fetched(l)
         /\ ~ lookups[l].write_failed)
        => /\ lookups[l].fetches = 1
           /\ lookups[l].stored_after =
                Some([value |-> json_dumps(lookups[l].fetched[1]),
                      expire_at |-> Some(lookups[l].wrote_at + DEFAULT_CACHE_TTL)])
           /\ lookups[l].result[1].status = "ok"
           /\ lookups[l].result[1].source = "provider"

\* C3: a lookup with force_refresh whose key holds an unexpired entry does not
\* read the cache and calls the provider; when the fetch succeeds the caller
\* gets the fetched value and the entry under the key is the fetched value.
C3_ForceRefreshOverwrites ==
    \A l \in Slots :
        (lookups[l].force /\ lookups[l].had # None)
        => /\ lookups[l].reads = 0
           /\ lookups[l].cached = None
           /\ lookups[l].fetches = 1
           /\ (Done(l) /\ ~ lookups[l].fetch_failed)
                => /\ Fetched(l)
                   /\ lookups[l].result[1] =
                        Ok(lookups[l].fetched[1].source, lookups[l].fetched[1])
                   /\ lookups[l].stored_after # None
                   /\ lookups[l].stored_after[1].value = json_dumps(lookups[l].fetched[1])

\* a forced lookup over a live entry has replaced it by a different value
C3_Witness ==
    \E l \in Slots :
        /\ Done(l)
        /\ lookups[l].force
        /\ lookups[l].had # None
        /\ Fetched(l)
        /\ lookups[l].had[1].value # json_dumps(lookups[l].fetched[1])
        /\ Live(lookups[l].key) # None
        /\ Live(lookups[l].key)[1].value = json_dumps(lookups[l].fetched[1])


\* C4: when the provider fetch fails, the failure is returned to the caller
\* and the store is left as it was: the failing step changes nothing in the
\* store and the lookup has written nothing, and the entries a reader can see
\* change only in a step that completes a successful fetch
C4_FailedFetchLeavesStore ==
    [][ /\ \A l \in Slots :
              (/\ lookups[l].pc = "fetch"
               /\ lookups'[l].pc = "done"
               /\ lookups'[l].fetch_failed)
              => /\ data' = data
                 /\ expiry' = expiry
                 /\ server' = server
                 /\ lookups'[l].sets = 0
                 /\ lookups'[l].hsets = 0
                 /\ lookups'[l].result # None
                 /\ lookups'[l].result[1].status \in {"error", "not_found"}
                 /\ lookups'[l].result[1].value = None
        /\ (/\ clock' = clock
            /\ \E k \in DOMAIN data \cup DOMAIN data' \cup DOMAIN server \cup DOMAIN server' :
                  Live(k)' # Live(k))
           => \E l \in Slots :
                 /\ lookups[l].pc \in {"fetch", "write"}
                 /\ lookups'[l].pc = "done"
                 /\ lookups'[l].fetched # None
                 /\ ~ lookups'[l].fetch_failed ]_vars

C4_Witness ==
    \E l \in Slots :
        /\ app = "routes"
        /\ Done(l)
        /\ lookups[l].fetch_failed
        /\ lookups[l].result[1].status = "error"
        /\ lookups[l].sets = 0
        /\ Live(lookups[l].key) # None

\* C7: an entry whose TTL has elapsed is never returned: a lookup that reads
\* the store after the deadline of the last write under its key gets nothing
\* from the cache and takes the miss path, and whatever a lookup gets from the
\* cache was read no later than that deadline
C7_ExpiredEntryIsAMiss ==
    \A l \in Slots :
        /\ (/\ lookups[l].reads = 1
            /\ lookups[l].deadline # None
            /\ lookups[l].began_at > lookups[l].deadline[1])
           => /\ lookups[l].cached = None
              /\ lookups[l].fetches = 1
              /\ Done(l) => (lookups[l].fetch_failed \/ Fetched(l))
        /\ lookups[l].cached # None
           => /\ lookups[l].deadline # None
              /\ lookups[l].began_at <= lookups[l].deadline[1]

C7_Witness ==
    \E l \in Slots :
        /\ Done(l)
        /\ lookups[l].reads = 1
        /\ lookups[l].deadline # None
        /\ lookups[l].began_at > lookups[l].deadline[1]
        /\ Fetched(l)
        /\ lookups[l].result[1].status = "ok"
        /\ lookups[l].result[1].value = lookups[l].fetched

\* C8: a failed read of the store is treated as a miss: nothing is taken from
\* the cache, the provider is fetched once, and the response is the fetched
\* value or the failure of the fetch, never the failure of the read
C8_ReadFailureIsAMiss ==
    \A l \in Slots :
        lookups[l].read_failed
        => /\ lookups[l].cached = None
           /\ lookups[l].fetches = 1
           /\ Done(l)
              => \/ /\ lookups[l].fetch_failed
                    /\ lookups[l].fetched = None
                 \/ /\ Fetched(l)
                    /\ lookups[l].result[1].status = "ok"
                    /\ lookups[l].result[1].value = lookups[l].fetched

C8_Witness ==
    \E l \in Slots :
        /\ Done(l)
        /\ lookups[l].read_failed
        /\ server # << >>
        /\ lookups[l].key \in DOMAIN server
        /\ Fetched(l)
        /\ lookups[l].result[1].status = "ok"
        /\ lookups[l].result[1].value = lookups[l].fetched

\* C9: a failed write of the store does not fail the request: the fetched
\* value is still returned
C9_WriteFailureIsSwallowed ==
    \A l \in Slots :
        (Done(l) /\ lookups[l].write_failed)
        => /\ Fetched(l)
           /\ lookups[l].result[1].status = "ok"
           /\ lookups[l].result[1].value = lookups[l].fetched

C9_Witness ==
    \E l \in Slots :
        /\ Done(l)
        /\ lookups[l].write_failed
        /\ lookups[l].sets = 1
        /\ lookups[l].stored_after = None
        /\ lookups[l].result[1].status = "ok"
        /\ lookups[l].result[1].value = lookups[l].fetched

\* C10 as stated: a lookup that fetched successfully made exactly one write
\* to the store, a lookup served from the cache none
C10_ExactlyOneStoreWrite ==
    \A l \in Slots :
        /\ (Done(l) /\ Fetched(l)) => lookups[l].sets + lookups[l].hsets = 1
        /\ ServedFromCache(l) => lookups[l].sets + lookups[l].hsets = 0

\* C10 amended: a lookup that fetched successfully made exactly one write of
\* the cache entry; the handlers of app/main.py wrote one record hash to the
\* same store besides, the routes over CacheService nothing else; a lookup
\* served from the cache, or one whose fetch failed, wrote nothing
C10_OneCacheWritePlusRecord ==
    \A l \in Slots :
        /\ (Done(l) /\ Fetched(l))
           => /\ lookups[l].sets = 1
              /\ lookups[l].hsets = IF app = "main" THEN 1 ELSE 0
        /\ (ServedFromCache(l) \/ (Done(l) /\ lookups[l].fetch_failed))
           => /\ lookups[l].sets = 0
              /\ lookups[l].hsets = 0

C10_Witness ==
    \E l \in Slots :
        /\ app = "main"
        /\ Done(l)
        /\ Fetched(l)
        /\ lookups[l].sets = 1
        /\ lookups[l].hsets = 1
        /\ RecordKeyOf(lookups[l]) \in DOMAIN data
        /\ lookups[l].key \in DOMAIN data

\* C11: no lookup caches a negative outcome: a lookup to which the provider
\* answered 404, or for which the database had no row, makes no write to the
\* store
C11_NoNegativeCaching ==
    \A l \in Slots :
        lookups[l].not_found
        => /\ lookups[l].sets = 0
           /\ lookups[l].hsets = 0

\* two lookups of one key that both found the store empty, both fetched and
\* both wrote
BothMissed(l1, l2) ==
    /\ l1 # l2
    /\ Done(l1) /\ Done(l2)
    /\ lookups[l1].key = lookups[l2].key
    /\ lookups[l1].had = None /\ lookups[l2].had = None
    /\ Fetched(l1) /\ Fetched(l2)
    /\ ~ lookups[l1].write_failed /\ ~ lookups[l2].write_failed

\* each of the two lookups fetched once, got its own fetched value, and its
\* write replaced whatever was under the key
OwnValueAndLastWriteWins(l) ==
    /\ lookups[l].fetches = 1
    /\ lookups[l].result[1].status = "ok"
    /\ lookups[l].result[1].value = lookups[l].fetched
    /\ lookups[l].stored_after # None
    /\ lookups[l].stored_after[1].value = json_dumps(lookups[l].fetched[1])

EntryUnder(d, e, s, k) ==
    <<IF k \in DOMAIN d THEN Some(d[k]) ELSE None,
      IF k \in DOMAIN e THEN Some(e[k]) ELSE None,
      IF k \in DOMAIN s THEN Some(s[k]) ELSE None>>

\* C13: lookups are isolated from each other: what a lookup takes from the
\* cache is the entry under its own key (as the stored text in app/main.py,
\* parsed by RedisClient.get in the routes), a step of a lookup changes nothing
\* in the store under any key but its own cache key and its own record key,
\* and it changes no other lookup
C13_LookupsTouchOnlyTheirOwnKey ==
    /\ [](\A l \in Slots :
             lookups[l].cached # None
             => /\ lookups[l].had # None
                /\ lookups[l].cached =
                      IF app = "main"
                      THEN Some(lookups[l].had[1].value)
                      ELSE Some(json_loads(lookups[l].had[1].value)))
    /\ [][ \A l \in Slots :
              lookups'[l] # lookups[l]
              => /\ \A l2 \in Slots \ {l} : lookups'[l2] = lookups[l2]
                 /\ \A k \in (DOMAIN data \cup DOMAIN data' \cup DOMAIN server \cup DOMAIN server')
                               \ {lookups'[l].key, RecordKeyOf(lookups'[l])} :
                       EntryUnder(data', expiry', server', k) = EntryUnder(data, expiry, server, k) ]_vars

C13_Witness ==
    \E l1, l2 \in Slots :
        /\ Done(l1) /\ Done(l2)
        /\ lookups[l1].key # lookups[l2].key
        /\ Fetched(l1) /\ Fetched(l2)
        /\ lookups[l1].fetched # lookups[l2].fetched
        /\ Live(lookups[l1].key) # None
        /\ Live(lookups[l2].key) # None
        /\ Live(lookups[l1].key)[1].value = json_dumps(lookups[l1].fetched[1])
        /\ Live(lookups[l2].key)[1].value = json_dumps(lookups[l2].fetched[1])

\* C14, the part that is a property of states: every lookup calls the fetch
\* at most once, and a lookup that has ended has either a complete value with
\* source "cache" or "provider", or a failure without a value; a lookup that
\* has not ended has returned nothing
C14_OneFetchThenResolvedOrFailed ==
    \A l \in Slots :
        /\ lookups[l].fetches <= 1
        /\ ~ Done(l) => lookups[l].result = None
        /\ Done(l)
           => /\ lookups[l].result # None
              /\ \/ /\ lookups[l].result[1].status = "ok"
                    /\ lookups[l].result[1].value # None
                    /\ lookups[l].result[1].source \in {"cache", "provider"}
                 \/ /\ lookups[l].result[1].status \in {"error", "not_found"}
                    /\ lookups[l].result[1].value = None

---------------------------------------------------------------------------
(* Claims about the form of keys *)

\* the derivations under whose key a lookup path reads or writes a cached
\* value: CacheService's two, and the cache keys of get_policy_by_number and
\* of the two handlers of app/main.py
LookupDerivations ==
    {"verification", "policy", "policy_number", "main_verify", "main_policy"}

\* namespace:digest: literal text, a colon, and one SHA-256 hex digest
IsNamespaceDigest(key) ==
    /\ Len(key) >= 3
    /\ \A i \in 1..(Len(key) - 1) : DOMAIN key[i] = {"lit"}
    /\ key[Len(key) - 1] = Lit(":")
    /\ DOMAIN key[Len(key)] = {"sha256"}

\* the characters of a value stand in the key as they are
Embeds(key, value) ==
    \E i \in 1..Len(key) :
        /\ i + Len(value) - 1 <= Len(key)
        /\ SubSeq(key, i, i + Len(value) - 1) = Raw(value)

\* C15: every key under which a lookup path reads or writes a cached value is
\* a namespace, a colon and a SHA-256 hex digest, and holds none of the
\* request's fields as they were given
C15_KeysAreNamespaceAndDigest ==
    derivation \in LookupDerivations
    => /\ IsNamespaceDigest(keyA)
       /\ \A f \in DOMAIN reqA : ~ Embeds(keyA, reqA[f])

---------------------------------------------------------------------------
(* Cache writes with a ttl: CacheService.cache_verification and            *)
(* cache_policy called with every kind of ttl, on a server that may be     *)
(* unreachable.  last_set keeps, for each key, the time and the ttl        *)
(* argument of the last call that stored something.                        *)

\* the largest ttl a caller gives, seconds
MaxTtl == 2

\* the ttl arguments: a negative number, 0 for a call without ttl, and the
\* positive numbers up to MaxTtl
TtlSamples == (0 - 1)..MaxTtl

TtlInit ==
    /\ app = "routes"
    /\ api_key = FALSE
    /\ clock = 0
    /\ data = << >>
    /\ expiry = << >>
    /\ server = << >>
    /\ redis_up = TRUE
    /\ started = 0
    /\ lookups = [l \in Slots |-> IdleLookup]
    /\ last_set = << >>
    /\ reqA = NoRequest
    /\ reqB = NoRequest
    /\ derivation = "none"
    /\ keyA = << >>
    /\ keyB = << >>
    /\ NoChat
    /\ NoListing
    /\ NoRecords
    /\ NoPolicyRows
    /\ NoSimple

CacheVerificationCall ==
    \E r \in LookupRequests, value \in ProviderBodies, ttl \in TtlSamples :
        LET cache_key == generate_verification_key(r.provider, r.member_id, r.dob, r.last_name)
            w == cache_verification(server, redis_up, cache_key, value, ttl, now)
        IN  /\ server' = w.server
            /\ last_set' = IF w.ok THEN Put(last_set, cache_key, [at |-> now, ttl |-> ttl])
                           ELSE last_set
            /\ UNCHANGED <<app, api_key, clock, data, expiry, redis_up, started, lookups>>
            /\ UNCHANGED keyVars

CachePolicyCall ==
    \E r \in LookupRequests, value \in PolicyRows, ttl \in TtlSamples :
        LET cache_key == generate_policy_key(r.member_id, r.dob, r.last_name)
            w == cache_policy(server, redis_up, cache_key, value, ttl, now)
        IN  /\ server' = w.server
            /\ last_set' = IF w.ok THEN Put(last_set, cache_key, [at |-> now, ttl |-> ttl])
                           ELSE last_set
            /\ UNCHANGED <<app, api_key, clock, data, expiry, redis_up, started, lookups>>
            /\ UNCHANGED keyVars

TtlNext ==
    \/ CacheVerificationCall
    \/ CachePolicyCall
    \/ Tick
    \/ RedisDown
    \/ RedisUp

SpecTtl == TtlInit /\ [][TtlNext]_vars

\* C16: every entry CacheService.cache_verification or cache_policy has
\* stored expires, at a time after its write: the write time plus the
\* caller's ttl when the caller gave one, plus DEFAULT_CACHE_TTL otherwise
C16_EveryCacheEntryExpires ==
    \A k \in DOMAIN server :
        /\ k \in DOMAIN last_set
        /\ server[k].expire_at # None
        /\ server[k].expire_at[1] > last_set[k].at
        /\ server[k].expire_at[1] =
              last_set[k].at + (IF last_set[k].ttl # 0 THEN last_set[k].ttl
                                ELSE DEFAULT_CACHE_TTL)

C16_Witness ==
    \E k1, k2 \in DOMAIN server :
        /\ last_set[k1].ttl = 0
        /\ server[k1].expire_at = Some(last_set[k1].at + DEFAULT_CACHE_TTL)
        /\ last_set[k2].ttl > 0
        /\ last_set[k2].ttl # DEFAULT_CACHE_TTL
        /\ server[k2].expire_at = Some(last_set[k2].at + last_set[k2].ttl)

---------------------------------------------------------------------------
(* Admission of a request: the dependencies and the validation of the body *)
(* that run before the handler.                                            *)

\* settings.JWT_SECRET
JWT_SECRET == "your-secret-key-here"

\* An Authorization header is None or a scheme and a token.  The tokens: the
\* secret itself, a JWT signed with the secret for an active user, a JWT
\* signed with the secret for a user the database does not hold, and anything
\* else.
AuthorizationSamples ==
    { None,
      Some([scheme |-> "Basic", token |-> JWT_SECRET]),
      Some([scheme |-> "Bearer", token |-> "garbage"]),
      Some([scheme |-> "Bearer", token |-> JWT_SECRET]),
      Some([scheme |-> "Bearer", token |-> "jwt"]),
      Some([scheme |-> "Bearer", token |-> "jwt_gone"]) }

\* the rows of the users table that are active
ActiveUsers == {"user"}

\* app/auth.py verify_bearer_token: the status it raises, "ok" when it returns
verify_bearer_token(authorization) ==
    IF JWT_SECRET = "" THEN "ok"
    ELSE IF authorization = None \/ authorization[1].scheme # "Bearer" THEN "401"
    ELSE IF authorization[1].token # JWT_SECRET THEN "401"
    ELSE "ok"

\* fastapi.security.HTTPBearer(): without a header, or with another scheme,
\* it raises before get_current_user runs, with 403 or, from the release
\* that changed it on, with 401
HTTPBearer(authorization) ==
    IF authorization = None \/ authorization[1].scheme # "Bearer"
    THEN {"401", "403"}
    ELSE {"ok"}

\* AuthService.verify_token: the user id in a JWT the secret has signed
verify_token(token) ==
    IF token = "jwt" THEN Some("user")
    ELSE IF token = "jwt_gone" THEN Some("gone")
    ELSE None

\* core/security.py get_current_user: the status raised, "ok" when the user
\* is returned
get_current_user(authorization) ==
    LET user_id == verify_token(authorization[1].token)
    IN  IF user_id = None THEN "401"
        ELSE IF user_id[1] \notin ActiveUsers THEN "401"
        ELSE "ok"

\* the credentials each application takes as valid
ValidCredentials(application, authorization) ==
    /\ authorization # None
    /\ authorization[1].scheme = "Bearer"
    /\ authorization[1].token = (IF application = "main" THEN JWT_SECRET ELSE "jwt")

\* the decimal digits and their values
Digits == {"0", "1", "2", "3", "4", "5", "6", "7", "8", "9"}
DigitValue(c) ==
    CASE c = "0" -> 0 [] c = "1" -> 1 [] c = "2" -> 2 [] c = "3" -> 3
      [] c = "4" -> 4 [] c = "5" -> 5 [] c = "6" -> 6 [] c = "7" -> 7
      [] c = "8" -> 8 [] c = "9" -> 9

AllDigits(s) == \A i \in 1..Len(s) : s[i] \in Digits

\* int(s) of a string of digits
RECURSIVE ToInt(_)
ToInt(s) ==
    IF s = << >> THEN 0
    ELSE 10 * ToInt(SubSeq(s, 1, Len(s) - 1)) + DigitValue(s[Len(s)])

\* s.split("-")
RECURSIVE SplitDash(_)
SplitDash(s) ==
    IF \A i \in 1..Len(s) : s[i] # "-" THEN <<s>>
    ELSE LET i == CHOOSE i \in 1..Len(s) :
                     s[i] = "-" /\ \A j \in 1..(i - 1) : s[j] # "-"
         IN  <<SubSeq(s, 1, i - 1)>> \o SplitDash(SubSeq(s, i + 1, Len(s)))

\* the days of a month of the Gregorian calendar
IsLeap(y) == (y % 4 = 0 /\ y % 100 # 0) \/ y % 400 = 0
DaysInMonth(y, m) ==
    IF m = 2 THEN (IF IsLeap(y) THEN 29 ELSE 28)
    ELSE IF m \in {4, 6, 9, 11} THEN 30
    ELSE 31

\* the date a year, a month and a day make, None when there is no such day
MakeDate(y, m, d) ==
    IF y >= 1 /\ m \in 1..12 /\ d >= 1 /\ d <= DaysInMonth(y, m)
    THEN Some([year |-> y, month |-> m, day |-> d])
    ELSE None

\* datetime.strptime(v, '%Y-%m-%d'): %Y is four digits, %m and %d are one
\* or two digits (a day may also be a blank and a digit); None stands for
\* ValueError
strptime_Ymd(v) ==
    LET p == SplitDash(v)
    IN  IF /\ Len(p) = 3
           /\ Len(p[1]) = 4 /\ AllDigits(p[1])
           /\ Len(p[2]) \in {1, 2} /\ AllDigits(p[2])
           /\ Len(p[3]) \in {1, 2}
           /\ \/ AllDigits(p[3])
              \/ Len(p[3]) = 2 /\ p[3][1] = " " /\ p[3][2] \in Digits
        THEN MakeDate(ToInt(p[1]), ToInt(p[2]),
                      IF AllDigits(p[3]) THEN ToInt(p[3]) ELSE DigitValue(p[3][2]))
        ELSE None

\* pydantic's parsing of a str into a date: YYYY-MM-DD, four, two and two
\* digits; None stands for the validation error
date_from_str(v) ==
    LET p == SplitDash(v)
    IN  IF /\ Len(p) = 3
           /\ Len(p[1]) = 4 /\ AllDigits(p[1])
           /\ Len(p[2]) = 2 /\ AllDigits(p[2])
           /\ Len(p[3]) = 2 /\ AllDigits(p[3])
        THEN MakeDate(ToInt(p[1]), ToInt(p[2]), ToInt(p[3]))
        ELSE None

\* schemas/verification.py VerificationRequest: min_length=1 on member_id and
\* last_name, validate_dob
VerificationRequest(r) ==
    /\ Len(r.member_id) >= 1
    /\ Len(r.last_name) >= 1
    /\ strptime_Ymd(r.dob) # None

\* dto.py VerifyRequest: str fields without constraint, dob a date not before
\* 1950-01-01
VerifyRequest(r) ==
    /\ date_from_str(r.dob) # None
    /\ date_from_str(r.dob)[1].year >= 1950

---------------------------------------------------------------------------
(* The admission specification: requests with an Authorization header and *)
(* a body that may be invalid arrive at POST /api/verify of either         *)
(* application; the admitted ones run the verify handler of the lookup     *)
(* specification.                                                          *)

\* "1990-01-01" is a date, "1990-1-1" is the same day without the zeros,
\* "1990-02-30" is no day, "1949-12-31" is a day before 1950, and the last
\* one is the dob of tests/test_verification.py
HttpDobSamples ==
    { <<"1","9","9","0","-","0","1","-","0","1">>,
      <<"1","9","9","0","-","1","-","1">>,
      <<"1","9","9","0","-","0","2","-","3","0">>,
      <<"1","9","4","9","-","1","2","-","3","1">>,
      <<"i","n","v","a","l","i","d","-","d","a","t","e">> }

HttpRequests ==
    [provider : {<<"d">>}, member_id : {<<>>, <<"d">>}, dob : HttpDobSamples,
     last_name : {<<"d">>}, authorization : AuthorizationSamples]

\* the answer of a request the handler never saw
Rejected(l, r, status) ==
    /\ Free(l)
    /\ lookups' = [lookups EXCEPT ![l] =
          [IdleLookup EXCEPT !.pc = "done", !.path = "verify", !.req = r,
                             !.request_id = started + 1, !.began_at = now,
                             !.result = Some(Failure(status))]]
    /\ started' = started + 1
    /\ UNCHANGED <<app, api_key, clock, data, expiry, server, redis_up, last_set>>
    /\ UNCHANGED keyVars

\* app/main.py verify: Depends(verify_bearer_token) raises
verify_unauthorized(l, r) ==
    /\ app = "main"
    /\ verify_bearer_token(r.authorization) # "ok"
    /\ Rejected(l, r, verify_bearer_token(r.authorization))

\* app/main.py verify: the body is not a VerifyRequest
verify_invalid(l, r) ==
    /\ app = "main"
    /\ verify_bearer_token(r.authorization) = "ok"
    /\ ~ VerifyRequest(r)
    /\ Rejected(l, r, "422")

\* app/main.py verify: the handler is entered
verify_admitted(l, r, force) ==
    /\ verify_bearer_token(r.authorization) = "ok"
    /\ VerifyRequest(r)
    /\ verify_begin(l, r, force)

\* verify_insurance: Depends(get_current_user) raises, in HTTPBearer or in
\* get_current_user itself
verify_insurance_unauthorized(l, r) ==
    /\ app = "routes"
    /\ \E status \in HTTPBearer(r.authorization) :
          IF status # "ok" THEN Rejected(l, r, status)
          ELSE /\ get_current_user(r.authorization) # "ok"
               /\ Rejected(l, r, get_current_user(r.authorization))

\* verify_insurance: the body is not a VerificationRequest
verify_insurance_invalid(l, r) ==
    /\ app = "routes"
    /\ HTTPBearer(r.authorization) = {"ok"}
    /\ get_current_user(r.authorization) = "ok"
    /\ ~ VerificationRequest(r)
    /\ Rejected(l, r, "422")

\* verify_insurance: the handler is entered
verify_insurance_admitted(l, r) ==
    /\ HTTPBearer(r.authorization) = {"ok"}
    /\ get_current_user(r.authorization) = "ok"
    /\ VerificationRequest(r)
    /\ verify_insurance_read(l, r)

AdmissionNext ==
    \/ \E l \in Slots, r \in HttpRequests : verify_unauthorized(l, r)
    \/ \E l \in Slots, r \in HttpRequests : verify_invalid(l, r)
    \/ \E l \in Slots, r \in HttpRequests, force \in BOOLEAN : verify_admitted(l, r, force)
    \/ \E l \in Slots : verify_provider_error(l)
    \/ \E l \in Slots : verify_complete(l)
    \/ \E l \in Slots, r \in HttpRequests : verify_insurance_unauthorized(l, r)
    \/ \E l \in Slots, r \in HttpRequests : verify_insurance_invalid(l, r)
    \/ \E l \in Slots, r \in HttpRequests : verify_insurance_admitted(l, r)
    \/ \E l \in Slots : verify_insurance_fetch(l)
    \/ \E l \in Slots : verify_insurance_write(l)
    \/ RedisDown
    \/ RedisUp

SpecAdmission == Init /\ [][AdmissionNext]_vars

\* a request has been answered or is being served in slot l
Arrived(l) == lookups[l].pc # "idle"

\* the handler of the request in slot l has touched nothing
Untouched(l) ==
    /\ lookups[l].reads = 0
    /\ lookups[l].fetches = 0
    /\ lookups[l].sets = 0
    /\ lookups[l].hsets = 0

\* C17: a request to the verify endpoint without valid bearer credentials
\* is answered 401, and it causes no cache read, no provider call and no
\* store write.
C17_UnauthorizedIs401WithoutEffect ==
    \A l \in Slots :
        Arrived(l) /\ ~ ValidCredentials(app, lookups[l].req.authorization) =>
            /\ Done(l)
            /\ lookups[l].result[1].status = "401"
            /\ Untouched(l)

\* what C17 says apart from the status: such a request is refused before the
\* handler, whatever the status
UnauthorizedIsRefusedWithoutEffect ==
    \A l \in Slots :
        Arrived(l) /\ ~ ValidCredentials(app, lookups[l].req.authorization) =>
            /\ Done(l)
            /\ lookups[l].result[1].status \in {"401", "403"}
            /\ Untouched(l)

\* a valid dob in the words of the contract: YYYY-MM-DD, a day of the calendar
ValidDob(dob) == date_from_str(dob) # None

\* C18: a verification request with an empty member_id or a dob that is not
\* a valid YYYY-MM-DD date is answered 422 before any cache read, provider
\* call or store write.  The request carries valid credentials: the
\* dependencies are resolved before the body is judged.
C18_InvalidBodyIs422WithoutEffect ==
    \A l \in Slots :
        /\ Arrived(l)
        /\ ValidCredentials(app, lookups[l].req.authorization)
        /\ lookups[l].req.member_id = << >> \/ ~ ValidDob(lookups[l].req.dob)
        => /\ Done(l)
           /\ lookups[l].result[1].status = "422"
           /\ Untouched(l)

---------------------------------------------------------------------------
(* The simulated policy status of the chatbots: main_simple.py,            *)
(* demo_chatbot_logic.py and ChatbotService.  A character outside ASCII is *)
(* written as its code point.                                              *)

\* str.isdigit(): the ASCII digits and, outside ASCII, the decimal digits of
\* other scripts (ARABIC-INDIC DIGIT THREE, U+0663) and digit-like
\* characters (SUPERSCRIPT TWO, U+00B2)
isdigit(c) == c \in Digits \cup {"U+0663", "U+00B2"}

\* int(c) of one character: the value of a decimal digit of any script; None
\* stands for ValueError
int(c) ==
    IF c \in Digits THEN Some(DigitValue(c))
    ELSE IF c = "U+0663" THEN Some(3)
    ELSE None

\* main_simple.py get_policy_status; None stands for the ValueError of int()
main_simple_get_policy_status(number) ==
    IF number = << >> THEN Some("UNKNOWN")
    ELSE LET last == number[Len(number)]
             last_digit == IF isdigit(last) THEN int(last) ELSE Some(0)
         IN  IF last_digit = None THEN None
             ELSE IF last_digit[1] \in {0, 1, 2} THEN Some("ACTIVE")
             ELSE IF last_digit[1] \in {3, 4, 5} THEN Some("INACTIVE")
             ELSE IF last_digit[1] \in {6, 7, 8} THEN Some("EXPIRED")
             ELSE Some("PENDING")

\* demo_chatbot_logic.py get_policy_status; None stands for the ValueError
demo_chatbot_logic_get_policy_status(number) ==
    IF number = << >> THEN Some("UNKNOWN")
    ELSE LET last == number[Len(number)]
             last_digit == IF isdigit(last) THEN int(last) ELSE Some(0)
         IN  IF last_digit = None THEN None
             ELSE IF last_digit[1] \in {0, 1, 2} THEN Some("ACTIVE")
             ELSE IF last_digit[1] \in {3, 4, 5} THEN Some("INACTIVE")
             ELSE IF last_digit[1] \in {6, 7, 8} THEN Some("EXPIRED")
             ELSE Some("PENDING")

\* a _generate_response in which a letter at the end counts as 9: C19 tells
\* it from generate_response
generate_response_letter_pending(number) ==
    IF number = << >> THEN None
    ELSE LET last == number[Len(number)]
             last_digit == IF isdigit(last) THEN int(last) ELSE Some(9)
         IN  IF last_digit = None THEN None
             ELSE IF last_digit[1] \in {0, 1, 2} THEN Some("ACTIVE")
             ELSE IF last_digit[1] \in {3, 4, 5} THEN Some("INACTIVE")
             ELSE IF last_digit[1] \in {6, 7, 8} THEN Some("EXPIRED")
             ELSE Some("PENDING")

\* ChatbotService._generate_response for the intent get_policy_number, lines
\* 186-216 and 256-261: the status named in the text of the answer.  None
\* when the text names no status: no policy number among the entities, or
\* the ValueError of int(), which the handler answers with an apology
generate_response(number) ==
    IF number = << >> THEN None
    ELSE LET last == number[Len(number)]
             last_digit == IF isdigit(last) THEN int(last) ELSE Some(0)
         IN  IF last_digit = None THEN None
             ELSE IF last_digit[1] \in {0, 1, 2} THEN Some("ACTIVE")
             ELSE IF last_digit[1] \in {3, 4, 5} THEN Some("INACTIVE")
             ELSE IF last_digit[1] \in {6, 7, 8} THEN Some("EXPIRED")
             ELSE Some("PENDING")

\* What extract_policy_number and _parse_classification_result find in a
\* message: six or more characters matched by \d, which takes the decimal
\* digits of every script, or six or more of A-Z and 0-9.
ExtractedSamples ==
    { <<"1", "2", "3", "4", "5", c>> : c \in Digits \cup {"A", "Z", "U+0663"} }
    \cup { <<"P", "O", "L", "0", "0", c>> : c \in Digits \cup {"A", "Z"} }

Implementations == {"main_simple", "demo_chatbot_logic", "ChatbotService"}

ChatInit ==
    /\ extracted_policy_number \in ExtractedSamples
    /\ replies = << >>
    /\ NoListing
    /\ NoRecords
    /\ NoPolicyRows
    /\ NoSimple
    /\ app = "none"
    /\ api_key = FALSE
    /\ clock = 0
    /\ data = << >>
    /\ expiry = << >>
    /\ server = << >>
    /\ redis_up = TRUE
    /\ started = 0
    /\ lookups = [l \in Slots |-> IdleLookup]
    /\ last_set = << >>
    /\ reqA = NoRequest
    /\ reqB = NoRequest
    /\ derivation = "none"
    /\ keyA = << >>
    /\ keyB = << >>

\* an implementation answers the message
Reply(implementation, status) ==
    /\ implementation \notin DOMAIN replies
    /\ replies' = Put(replies, implementation, status)
    /\ UNCHANGED <<extracted_policy_number, listVars, verifications, policyVars, simpleVars>>
    /\ UNCHANGED <<reqA, reqB, derivation, keyA, keyB>>
    /\ UNCHANGED <<app, api_key, clock, data, expiry, server, redis_up, started,
                   last_set, lookups>>

\* main_simple.py chat_with_bot, lines 503-507
main_simple_chat_with_bot ==
    Reply("main_simple", main_simple_get_policy_status(extracted_policy_number))

\* demo_chatbot_logic.py enhanced_chatbot_logic, lines 53-58
enhanced_chatbot_logic ==
    Reply("demo_chatbot_logic", demo_chatbot_logic_get_policy_status(extracted_policy_number))

\* ChatbotService._generate_response
ChatbotService_generate_response ==
    Reply("ChatbotService", generate_response(extracted_policy_number))

ChatNext ==
    \/ main_simple_chat_with_bot
    \/ enhanced_chatbot_logic
    \/ ChatbotService_generate_response

SpecChat == ChatInit /\ [][ChatNext]_vars

\* the status the contract gives a policy number: by the value of its last
\* character, a character that is no digit counting as 0
ContractStatus(number) ==
    LET last == number[Len(number)]
        value == IF int(last) = None THEN 0 ELSE int(last)[1]
    IN  IF value \in 0..2 THEN "ACTIVE"
        ELSE IF value \in 3..5 THEN "INACTIVE"
        ELSE IF value \in 6..8 THEN "EXPIRED"
        ELSE "PENDING"

\* C19: the status reported for a policy number is the one its last
\* character determines (0-2 ACTIVE, 3-5 INACTIVE, 6-8 EXPIRED, 9 PENDING, a
\* non-digit as 0), and the three implementations report the same status
\* for the same policy number.
C19_StatusByLastCharacterEverywhere ==
    /\ \A i \in DOMAIN replies :
          replies[i] = Some(ContractStatus(extracted_policy_number))
    /\ \A i, j \in DOMAIN replies :
          replies[i] = replies[j]

\* all three implementations have answered for a policy number that ends in
\* a letter
C19_Witness ==
    /\ DOMAIN replies = Implementations
    /\ extracted_policy_number[Len(extracted_policy_number)] = "Z"
    /\ \A i \in Implementations : replies[i] = Some("ACTIVE")

---------------------------------------------------------------------------
(* The policy list: GET /policies of api/routes/policies.py over the       *)
(* policies table.  A row is its provider, one character; the table is     *)
(* kept in the order of the listing, newest first.                         *)

MaxPolicies == 3
MaxPage == 2
MaxPageSize == 2

ListProviders == {"a", "b"}

\* the search terms: none, the empty string, and one character in either case
SearchSamples == {None, Some(<< >>), Some(<<"a">>), Some(<<"A">>)}

\* Policy.provider.ilike(f"%{search_term}%") for a provider of one character
ilike(provider, search_term) ==
    \/ search_term = << >>
    \/ Lower(search_term) = Lower(<<provider>>)

\* PolicyService.search_policies: the rows that match, newest first
search_policies(rows, search_term) ==
    SelectSeq(rows, LAMBDA provider : ilike(provider, search_term))

\* rows[offset:offset + limit]
Slice(rows, offset, limit) ==
    SubSeq(rows, offset + 1, IF offset + limit < Len(rows) THEN offset + limit ELSE Len(rows))

\* PolicyService.get_all_policies: LIMIT limit OFFSET offset, newest first
get_all_policies(rows, limit, offset) == Slice(rows, offset, limit)

\* get_policies, lines 63-82: the PolicyListResponse
get_policies_response(rows, page, page_size, search) ==
    LET offset == (page - 1) * page_size
    IN  IF search # None /\ search[1] # << >>
        THEN [policies |-> Slice(search_policies(rows, search[1]), offset, page_size),
              total |-> Len(search_policies(rows, search[1])),
              page |-> page, page_size |-> page_size]
        ELSE [policies |-> get_all_policies(rows, page_size, offset),
              total |-> Len(get_all_policies(rows, page_size, offset)) + offset,
              page |-> page, page_size |-> page_size]

ListInit ==
    /\ NoListing
    /\ NoRecords
    /\ NoPolicyRows
    /\ NoSimple
    /\ NoChat
    /\ app = "routes"
    /\ api_key = FALSE
    /\ clock = 0
    /\ data = << >>
    /\ expiry = << >>
    /\ server = << >>
    /\ redis_up = TRUE
    /\ started = 0
    /\ lookups = [l \in Slots |-> IdleLookup]
    /\ last_set = << >>
    /\ reqA = NoRequest
    /\ reqB = NoRequest
    /\ derivation = "none"
    /\ keyA = << >>
    /\ keyB = << >>

ListFrame ==
    /\ UNCHANGED <<chatVars, verifications, policyVars, simpleVars>>
    /\ UNCHANGED <<reqA, reqB, derivation, keyA, keyB>>
    /\ UNCHANGED <<app, api_key, clock, data, expiry, server, redis_up, started,
                   last_set, lookups>>

\* PolicyService.create_policy: a new row, the newest
create_policy ==
    \E provider \in ListProviders :
        /\ Len(policies) < MaxPolicies
        /\ policies' = <<provider>> \o policies
        /\ UNCHANGED listing
        /\ ListFrame

\* PolicyService.delete_policy
delete_policy ==
    \E i \in 1..Len(policies) :
        /\ policies' = SubSeq(policies, 1, i - 1) \o SubSeq(policies, i + 1, Len(policies))
        /\ UNCHANGED listing
        /\ ListFrame

\* GET /policies.  The answer is kept with the query and with the number of
\* rows that matched it when it was given.
get_policies ==
    \E page \in 1..MaxPage, page_size \in 1..MaxPageSize, search \in SearchSamples :
        /\ listing' = Some([response |-> get_policies_response(policies, page, page_size, search),
                            search |-> search,
                            matching |-> IF search # None /\ search[1] # << >>
                                         THEN Len(search_policies(policies, search[1]))
                                         ELSE Len(policies)])
        /\ UNCHANGED policies
        /\ ListFrame

ListNext ==
    \/ create_policy
    \/ delete_policy
    \/ get_policies

SpecList == ListInit /\ [][ListNext]_vars

\* C20: the total of an answer of GET /policies is the number of policies
\* that match the query, all the stored ones without a search term,
\* whatever the page and the page size.
C20_TotalIsMatchCount ==
    listing # None => listing[1].response.total = listing[1].matching

\* the same for the answers to a query with a search term
SearchTotalIsMatchCount ==
    listing # None /\ listing[1].search # None /\ listing[1].search[1] # << >>
        => listing[1].response.total = listing[1].matching

\* without a search term the total is the number of rows up to the end of
\* the page asked for
ListTotalIsEndOfPage ==
    listing # None /\ (listing[1].search = None \/ listing[1].search[1] = << >>)
        => LET end == listing[1].response.page * listing[1].response.page_size
           IN  listing[1].response.total =
                   (IF listing[1].matching < end
                    THEN (IF listing[1].matching > end - listing[1].response.page_size
                          THEN listing[1].matching
                          ELSE end - listing[1].response.page_size)
                    ELSE end)

---------------------------------------------------------------------------
(* Order of the steps of a lookup *)

\* the lookup in slot l is on the miss path: it has called the fetch
Missed(l) == lookups[l].fetches > 0

\* what holds of a lookup on the miss path at every moment
MissPathInOrder(l) ==
    LET lk == lookups[l]
    IN  /\ ~ lk.force =>
              /\ lk.reads = 1
              /\ IF app = "main" \/ lk.cached = None THEN lk.cached = None
                 ELSE ~ Truthy(lk.cached[1])
        /\ lk.fetches = 1
        /\ lk.pc \in {"fetch", "write", "done"}
        /\ lk.pc = "fetch" => (lk.fetched = None /\ lk.sets = 0 /\ lk.result = None)
        /\ lk.pc = "write" => (lk.fetched # None /\ lk.sets = 0 /\ lk.result = None)
        /\ lk.sets > 0 => lk.fetched # None
        /\ lk.result # None =>
              /\ lk.pc = "done"
              /\ lk.fetched # None => lk.sets = 1
              /\ lk.fetched = None => (lk.sets = 0 /\ lk.result[1].status # "ok")

\* a step moves a lookup forward by one call: from the fetch to the write
\* or to the response, from the write to the response
ForwardOnly(l) ==
    LET before == lookups[l]
        after  == lookups'[l]
    IN  /\ (before.pc = "fetch" /\ after # before) =>
              (after.pc \in {"write", "done"} /\ after.reads = before.reads)
        /\ (before.pc = "write" /\ after # before) =>
              (after.pc = "done" /\ after.sets = 1 /\ after.fetched = before.fetched)

\* C21: on the miss path the store read comes before the fetch, the store
\* write comes only after the lookup's fetch has returned a value, a lookup
\* waits nowhere but at these calls, and the response is produced only
\* after the write attempt has completed.
C21_MissPathStepsInOrder ==
    /\ [](\A l \in Slots : Missed(l) => MissPathInOrder(l))
    /\ [][\A l \in Slots : ForwardOnly(l)]_vars

\* a lookup of the router application has read, fetched, written and
\* answered, while another lookup is waiting for its write
C21_Witness ==
    \E l, k \in Slots :
        /\ app = "routes"
        /\ Done(l) /\ Missed(l) /\ lookups[l].reads = 1 /\ lookups[l].sets = 1
        /\ lookups[l].result[1].source = "provider"
        /\ lookups[k].pc = "write"

---------------------------------------------------------------------------
(* Verification records: POST /api/verify answers with a request_id, GET   *)
(* /api/verify/{request_id} looks the record up.  Three applications       *)
(* serve the path: the router application, main_simple.py ("main_simple")  *)
(* and simple_server.py ("simple_server").                                 *)

RecordMemberIds ==
    { << >>,
      <<"1", "2", "3", "4", "7">>,
      <<"1", "2", "3", "4", "5", "0">>,
      <<"1", "2", "3", "4", "5", "7">>,
      <<"1", "2", "3", "4", "5", "X">> }

RecordRequests ==
    [provider : {<<"d">>}, member_id : RecordMemberIds,
     dob : {<<"1990-01-01">>}, last_name : {<<"d">>}]

\* the scenario main_simple.py and simple_server.py pick by the last digit
\* of the member id
Scenario(last_digit) ==
    IF last_digit \in {0, 1, 2} THEN "active"
    ELSE IF last_digit \in {3, 4} THEN "expired"
    ELSE IF last_digit \in {5, 6} THEN "suspended"
    ELSE IF last_digit = 7 THEN "not_found"
    ELSE IF last_digit = 8 THEN "pending_verification"
    ELSE "grace_period"

\* a response of POST /api/verify that carries a request_id
Answer(status, coverage_status) ==
    [status |-> status, source |-> "provider",
     value |-> Some({<<"coverage_status", coverage_status>>})]

\* the step of a handler that runs from the request to the response
Answered(l, r, result) ==
    /\ Free(l)
    /\ lookups' = [lookups EXCEPT ![l] =
          [IdleLookup EXCEPT !.pc = "done", !.path = "verify", !.req = r,
                             !.request_id = started + 1, !.began_at = now,
                             !.result = Some(result)]]
    /\ started' = started + 1
    /\ UNCHANGED <<app, api_key, clock, data, expiry, server, redis_up, last_set>>
    /\ UNCHANGED otherVars

\* main_simple.py verify_insurance, lines 114-207: the scenario of member
\* ids that end in 7 returns before the record is stored
main_simple_verify_insurance(l, r) ==
    /\ app = "main_simple"
    /\ LET last_digit ==
               IF r.member_id # << >> /\ isdigit(r.member_id[Len(r.member_id)])
               THEN int(r.member_id[Len(r.member_id)])
               ELSE Some(0)
       IN  IF last_digit = None
           THEN /\ Answered(l, r, Failure("error"))
                /\ UNCHANGED verifications
           ELSE IF Scenario(last_digit[1]) = "not_found"
           THEN /\ Answered(l, r, Answer("not_found", "not_found"))
                /\ UNCHANGED verifications
           ELSE /\ Answered(l, r, Answer("verified", Scenario(last_digit[1])))
                /\ verifications' = verifications \cup {started + 1}

\* simple_server.py handle_verify, lines 259-350: a member id of fewer than
\* six characters is answered with an error that carries the request_id,
\* the scenario of member ids that end in 7 returns before the record is
\* stored
handle_verify(l, r) ==
    /\ app = "simple_server"
    /\ IF Len(r.member_id) < 6
       THEN /\ Answered(l, r, [status |-> "error", source |-> "INVALID_MEMBER_ID",
                               value |-> None])
            /\ UNCHANGED verifications
       ELSE LET last_digit ==
                    IF isdigit(r.member_id[Len(r.member_id)])
                    THEN int(r.member_id[Len(r.member_id)])
                    ELSE Some(0)
            IN  IF last_digit = None
                THEN /\ Answered(l, r, Failure("error"))
                     /\ UNCHANGED verifications
                ELSE IF Scenario(last_digit[1]) = "not_found"
                THEN /\ Answered(l, r, Answer("not_found", "not_found"))
                     /\ UNCHANGED verifications
                ELSE /\ Answered(l, r, Answer("verified", Scenario(last_digit[1])))
                     /\ verifications' = verifications \cup {started + 1}

\* GET /api/verify/{request_id}: the record, None for not found.
\* simple_server.py do_GET has no such path and answers "Not found".
get_verification_details(application, table, request_id) ==
    IF application = "simple_server" THEN None
    ELSE IF request_id \in table THEN Some(request_id)
    ELSE None

RecordInit ==
    /\ app \in {"routes", "main_simple", "simple_server"}
    /\ api_key = FALSE
    /\ clock = 0
    /\ data = << >>
    /\ expiry = << >>
    /\ server = << >>
    /\ redis_up = TRUE
    /\ started = 0
    /\ lookups = [l \in Slots |-> IdleLookup]
    /\ last_set = << >>
    /\ reqA = NoRequest
    /\ reqB = NoRequest
    /\ derivation = "none"
    /\ keyA = << >>
    /\ keyB = << >>
    /\ NoChat
    /\ NoListing
    /\ NoRecords
    /\ NoPolicyRows
    /\ NoSimple

RecordNext ==
    \/ \E l \in Slots, r \in RecordRequests : verify_insurance_read(l, r)
    \/ \E l \in Slots : verify_insurance_fetch(l)
    \/ \E l \in Slots : verify_insurance_write(l)
    \/ \E l \in Slots, r \in RecordRequests : main_simple_verify_insurance(l, r)
    \/ \E l \in Slots, r \in RecordRequests : handle_verify(l, r)
    \/ RedisDown
    \/ RedisUp

SpecRecord == RecordInit /\ [][RecordNext]_vars

\* the response of the lookup in slot l carries a request_id: every response
\* but the 500 of an exception
ReturnsRequestId(l) ==
    /\ Done(l)
    /\ lookups[l].result[1] # Failure("error")

\* C22: every request_id returned in a response to POST /api/verify
\* identifies a stored verification record, which GET
\* /api/verify/{request_id} returns, whatever the outcome of the
\* verification.
C22_ReturnedRequestIdIsStored ==
    \A l \in Slots :
        ReturnsRequestId(l) =>
            get_verification_details(app, verifications, lookups[l].request_id) # None

\* the same for the answers of the router application and of main_simple.py
\* that come from the provider with a policy found
C22_ProviderAnswerIsStored ==
    \A l \in Slots :
        /\ ReturnsRequestId(l)
        /\ app \in {"routes", "main_simple"}
        /\ lookups[l].result[1].source = "provider"
        /\ lookups[l].result[1].status # "not_found"
        => get_verification_details(app, verifications, lookups[l].request_id) # None

---------------------------------------------------------------------------
(* PolicyService over the policies table and the cache: create_policy,     *)
(* update_policy, delete_policy, get_policy_by_number and get_policy_info. *)
(* A column of type String holds the parts of its text, as a key does.     *)

MaxRows == 2

PolicyMemberIds == {<<"m", "1">>, <<"M", "2">>}
PolicyDob == <<"1990-01-01">>
PolicyLastName == <<"d">>
CoverageStatuses == {"active", "expired"}

\* PolicyService.hash_member_key
hash_member_key(member_id, dob, last_name) ==
    sha256_hexdigest(Lower(member_id \o <<":">> \o dob \o <<":">> \o last_name))

\* the policy_info dict get_policy_info and get_policy_by_number build from
\* a row; a DateTime column that is set is a datetime object
policy_info_of(row) ==
    { <<"policy_number", row.policy_number>>,
      <<"coverage_status", row.coverage_status>>,
      <<"expiry_date", row.expiry_date>>,
      <<"source", row.source>>,
      <<"verified_at", row.verified_at>> }

\* result.scalar_one_or_none() of a select: the row when one row matches,
\* None when none does and, through the except clause around it, when more
\* than one does
scalar_one_or_none(rows, matching) ==
    IF Cardinality(matching) = 1
    THEN Some(rows[CHOOSE id \in matching : TRUE])
    ELSE None

\* PolicyService.get_policy_by_number_from_db
get_policy_by_number_from_db(rows, policy_number) ==
    scalar_one_or_none(rows, {id \in DOMAIN rows : rows[id].policy_number = policy_number})

\* PolicyService.get_policy_by_member_hash
get_policy_by_member_hash(rows, member_key_hash) ==
    scalar_one_or_none(rows, {id \in DOMAIN rows : rows[id].member_id = <<member_key_hash>>})

\* the answer a row gives, None without a row
InfoOrNone(policy) == IF policy = None THEN None ELSE Some(policy_info_of(policy[1]))

PolicyInit ==
    /\ policy_rows = << >>
    /\ policy_answer = [last_change |-> "none", changed |-> << >>, answer |-> None]
    /\ app = "routes"
    /\ api_key = FALSE
    /\ clock = 0
    /\ data = << >>
    /\ expiry = << >>
    /\ server = << >>
    /\ redis_up = TRUE
    /\ started = 0
    /\ lookups = [l \in Slots |-> IdleLookup]
    /\ last_set = << >>
    /\ reqA = NoRequest
    /\ reqB = NoRequest
    /\ derivation = "none"
    /\ keyA = << >>
    /\ keyB = << >>
    /\ NoChat
    /\ NoListing
    /\ NoRecords
    /\ NoSimple

PolicyFrame ==
    /\ UNCHANGED <<app, api_key, clock, data, expiry, redis_up, started, lookups, last_set>>
    /\ UNCHANGED <<reqA, reqB, derivation, keyA, keyB>>
    /\ UNCHANGED <<chatVars, listVars, verifications, simpleVars>>

\* PolicyService.create_policy: Policy(**policy_data) with the member_id as
\* it was given; source and verified_at take their defaults
PolicyService_create_policy ==
    \E member_id \in PolicyMemberIds, policy_number \in PolicyNumberSamples,
       coverage_status \in CoverageStatuses, expiry_date \in {"None", "datetime"} :
        LET free == (1..MaxRows) \ DOMAIN policy_rows
            id == CHOOSE i \in free : \A j \in free : i <= j
        IN  /\ free # {}
            /\ policy_rows' = Put(policy_rows, id,
                  [member_id |-> Raw(member_id), dob |-> PolicyDob,
                   last_name |-> PolicyLastName, policy_number |-> policy_number,
                   coverage_status |-> coverage_status, expiry_date |-> expiry_date,
                   source |-> "manual", verified_at |-> "None",
                   given_member_id |-> member_id])
            /\ policy_answer' = [last_change |-> "create", changed |-> policy_number,
                                 answer |-> None]
            /\ UNCHANGED server
            /\ PolicyFrame

\* PolicyService.update_policy, lines 215-240: the update and the commit
PolicyService_update_policy ==
    \E id \in DOMAIN policy_rows, coverage_status \in CoverageStatuses :
        /\ coverage_status # policy_rows[id].coverage_status
        /\ policy_rows' = [policy_rows EXCEPT ![id].coverage_status = coverage_status]
        /\ policy_answer' = [last_change |-> "update",
                             changed |-> policy_rows[id].policy_number,
                             answer |-> None]
        /\ UNCHANGED server
        /\ PolicyFrame

\* PolicyService.delete_policy, lines 242-262: the delete and the commit
PolicyService_delete_policy ==
    \E id \in DOMAIN policy_rows :
        /\ policy_rows' = Drop(policy_rows, id)
        /\ policy_answer' = [last_change |-> "delete",
                             changed |-> policy_rows[id].policy_number,
                             answer |-> None]
        /\ UNCHANGED server
        /\ PolicyFrame

\* The answer of a get is kept with what the table held for the query when
\* the answer was given (in_table).
\* PolicyService.get_policy_by_number
PolicyService_get_policy_by_number ==
    \E policy_number \in PolicyNumberSamples :
        LET cache_key == policy_number_key(policy_number)
            cached_policy == get_policy(server, redis_up, cache_key, now).value
            policy == get_policy_by_number_from_db(policy_rows, policy_number)
            hit == cached_policy # None /\ Truthy(cached_policy[1])
            w == cache_policy(server, redis_up, cache_key, policy_info_of(policy[1]), 0, now)
        IN  /\ server' = IF hit \/ policy = None THEN server ELSE w.server
            /\ policy_answer' = [policy_answer EXCEPT !.answer =
                  Some([op |-> "get_policy_by_number", policy_number |-> policy_number,
                        value |-> IF hit THEN cached_policy ELSE InfoOrNone(policy),
                        in_table |-> InfoOrNone(policy)])]
            /\ UNCHANGED policy_rows
            /\ PolicyFrame

\* PolicyService.get_policy_info
PolicyService_get_policy_info ==
    \E member_id \in PolicyMemberIds :
        LET cache_key == generate_policy_key(member_id, PolicyDob, PolicyLastName)
            cached_policy == get_policy(server, redis_up, cache_key, now).value
            member_key_hash == hash_member_key(member_id, PolicyDob, PolicyLastName)
            policy == get_policy_by_member_hash(policy_rows, member_key_hash)
            hit == cached_policy # None /\ Truthy(cached_policy[1])
            w == cache_policy(server, redis_up, cache_key, policy_info_of(policy[1]), 0, now)
        IN  /\ server' = IF hit \/ policy = None THEN server ELSE w.server
            /\ policy_answer' = [policy_answer EXCEPT !.answer =
                  Some([op |-> "get_policy_info", member_id |-> member_id,
                        value |-> IF hit THEN cached_policy ELSE InfoOrNone(policy),
                        in_table |-> InfoOrNone(policy)])]
            /\ UNCHANGED policy_rows
            /\ PolicyFrame

PolicyNext ==
    \/ PolicyService_create_policy
    \/ PolicyService_update_policy
    \/ PolicyService_delete_policy
    \/ PolicyService_get_policy_by_number
    \/ PolicyService_get_policy_info

SpecPolicy == PolicyInit /\ [][PolicyNext]_vars

\* get_policy_by_number has answered for the policy number of the row that
\* was last updated or deleted
AnsweredAfterChange ==
    /\ policy_answer.answer # None
    /\ policy_answer.answer[1].op = "get_policy_by_number"
    /\ policy_answer.last_change \in {"update", "delete"}
    /\ policy_answer.answer[1].policy_number = policy_answer.changed

\* C23: after update_policy or delete_policy has committed, a
\* get_policy_by_number for that policy returns what the table holds now,
\* the updated fields or not found, and not a value cached before.
C23_GetByNumberAfterChangeIsCurrent ==
    AnsweredAfterChange =>
        policy_answer.answer[1].value = policy_answer.answer[1].in_table

\* the rows create_policy has stored for a member
CreatedFor(member_id) ==
    {id \in DOMAIN policy_rows :
        /\ policy_rows[id].given_member_id = member_id
        /\ policy_rows[id].dob = PolicyDob
        /\ policy_rows[id].last_name = PolicyLastName}

\* C24: a policy stored with create_policy for a member_id, dob and
\* last_name is returned by a later get_policy_info with the same member_id,
\* dob and last_name.
C24_CreatedPolicyIsFound ==
    /\ policy_answer.answer # None
    /\ policy_answer.answer[1].op = "get_policy_info"
    /\ CreatedFor(policy_answer.answer[1].member_id) # {}
    => /\ policy_answer.answer[1].value # None
       /\ \E id \in CreatedFor(policy_answer.answer[1].member_id) :
             <<"policy_number", policy_rows[id].policy_number>>
                 \in policy_answer.answer[1].value[1]

\* get_policy_info finds no row: no member_id column holds a digest
GetPolicyInfoFindsNothing ==
    (policy_answer.answer # None /\ policy_answer.answer[1].op = "get_policy_info")
    => policy_answer.answer[1].value = None

\* the answers of the two gets have the shape of a policy_info or are None
PolicyAnswersAreInfos ==
    policy_answer.answer # None =>
        \A v \in {policy_answer.answer[1].value, policy_answer.answer[1].in_table} :
            v = None \/ \E n \in PolicyNumberSamples : <<"policy_number", n>> \in v[1]

---------------------------------------------------------------------------
(* simple_server.py: the chat handler, its sessions and policies_db.       *)
(* A message is the sequence of its characters.                            *)

UpperLetters ==
    <<"A", "B", "C", "D", "E", "F", "G", "H", "I", "J", "K", "L", "M",
      "N", "O", "P", "Q", "R", "S", "T", "U", "V", "W", "X", "Y", "Z">>
LowerLetters ==
    <<"a", "b", "c", "d", "e", "f", "g", "h", "i", "j", "k", "l", "m",
      "n", "o", "p", "q", "r", "s", "t", "u", "v", "w", "x", "y", "z">>
Letters == {UpperLetters[i] : i \in 1..26} \cup {LowerLetters[i] : i \in 1..26}

\* str.lower() over the letters A to Z
str_lower(s) ==
    [i \in DOMAIN s |->
        IF \E k \in 1..26 : UpperLetters[k] = s[i]
        THEN LowerLetters[CHOOSE k \in 1..26 : UpperLetters[k] = s[i]]
        ELSE s[i]]

\* \w of a regular expression
IsWordChar(c) == c \in Letters \cup Digits \cup {"_"}

\* F(e), with e evaluated once before F is applied
With(e, F(_)) == CHOOSE r \in {F(x) : x \in {e}} : TRUE

\* s[i:].startswith(w), positions from 1
StartsAt(s, i, w) ==
    /\ i + Len(w) - 1 <= Len(s)
    /\ \A k \in 1..Len(w) : s[i + k - 1] = w[k]

\* w in s
Contains(s, w) == \E i \in 1..(Len(s) + 1) : StartsAt(s, i, w)

\* the positions where \b\d{6}\b matches
SixDigitsAt(s, i) ==
    /\ i + 5 <= Len(s)
    /\ \A j \in i..(i + 5) : s[j] \in Digits
    /\ i = 1 \/ ~ IsWordChar(s[i - 1])
    /\ i + 5 = Len(s) \/ ~ IsWordChar(s[i + 6])

Least(S) == CHOOSE i \in S : \A j \in S : i <= j

\* re.findall(r'\b\d{6}\b', message): the matches from left to right
RECURSIVE findall_six_digits_from(_, _)
findall_six_digits_from(message, i) ==
    IF i > Len(message) THEN << >>
    ELSE IF SixDigitsAt(message, i)
         THEN <<SubSeq(message, i, i + 5)>> \o findall_six_digits_from(message, i + 6)
         ELSE findall_six_digits_from(message, i + 1)

findall_six_digits(message) == findall_six_digits_from(message, 1)

\* the first position from i on whose character is not in the class
RECURSIVE RunEnd(_, _, _)
RunEnd(s, i, class) ==
    IF i <= Len(s) /\ s[i] \in class THEN RunEnd(s, i + 1, class) ELSE i

\* the first position from i on whose character is whitespace
RECURSIVE WordEnd(_, _)
WordEnd(s, i) ==
    IF i <= Len(s) /\ s[i] # " " THEN WordEnd(s, i + 1) ELSE i

\* str.split(): the words between runs of whitespace, from position i on
RECURSIVE split_from(_, _)
split_from(s, i) ==
    With(RunEnd(s, i, {" "}), LAMBDA start :
        IF start > Len(s) THEN << >>
        ELSE With(WordEnd(s, start), LAMBDA stop :
                 <<SubSeq(s, start, stop - 1)>> \o split_from(s, stop)))

split(s) == With(s, LAMBDA text : split_from(text, 1))

\* " ".join(words)
RECURSIVE join(_)
join(words) ==
    IF words = << >> THEN << >>
    ELSE IF Len(words) = 1 THEN words[1]
    ELSE words[1] \o <<" ">> \o join(Tail(words))

\* One attempt of keyword:?\s*(\$?[class]+) at position i of s, ignoring
\* case (lower is s.lower()): the captured group, None when the attempt fails.
\* The optional colon and the whitespace are taken greedily; a group whose
\* class holds the space takes one space back from \s* when nothing else is
\* left for it.
MatchAt(s, lower, i, keyword, dollar, class) ==
    IF ~ StartsAt(lower, i, keyword) THEN None
    ELSE With(IF i + Len(keyword) <= Len(s) /\ s[i + Len(keyword)] = ":"
              THEN i + Len(keyword) + 1 ELSE i + Len(keyword), LAMBDA j2 :
         With(RunEnd(s, j2, {" "}), LAMBDA j3 :
         With(dollar /\ j3 <= Len(s) /\ s[j3] = "$" /\ RunEnd(s, j3 + 1, class) > j3 + 1,
              LAMBDA withDollar :
         With(IF withDollar THEN RunEnd(s, j3 + 1, class) ELSE RunEnd(s, j3, class),
              LAMBDA stop :
             IF stop > j3 THEN Some([from |-> j3, to |-> stop - 1])
             ELSE IF " " \in class /\ j3 > j2 THEN Some([from |-> j3 - 1, to |-> j3 - 1])
             ELSE None))))

\* the first alternative of the keyword, from the k-th on, that matches at i
RECURSIVE MatchAnyAt(_, _, _, _, _, _, _)
MatchAnyAt(s, lower, i, keywords, k, dollar, class) ==
    IF k > Len(keywords) THEN None
    ELSE With(MatchAt(s, lower, i, keywords[k], dollar, class), LAMBDA m :
             IF m # None THEN m
             ELSE MatchAnyAt(s, lower, i, keywords, k + 1, dollar, class))

\* re.search(r'(k1|k2):?\s*(group)', message, re.IGNORECASE): the span of the
\* group of the leftmost match, the alternatives of the keyword tried in
\* order; None without a match
re_search(s, lower, keywords, dollar, class) ==
    With({i \in 1..Len(s) : MatchAnyAt(s, lower, i, keywords, 1, dollar, class) # None},
         LAMBDA at : IF at = {} THEN None
                     ELSE MatchAnyAt(s, lower, Least(at), keywords, 1, dollar, class))

Group(s, m) == SubSeq(s, m[1].from, m[1].to)

NameClass == Letters \cup {" "}
DateClass == Digits \cup {"/", "-", "."}
AmountClass == Digits \cup {","}
PeriodWords == << <<"m", "o", "n", "t", "h">>, <<"m", "o">>,
                  <<"y", "e", "a", "r">>, <<"y", "r">> >>

\* the group (\$?[\d,]+\/?(month|mo|year|yr)?) of the premium pattern: the
\* amount, then an optional slash and an optional period word
premium_group(s, lower, m) ==
    LET e == m[1].to + 1
        e2 == IF e <= Len(s) /\ s[e] = "/" THEN e + 1 ELSE e
        words == {k \in 1..Len(PeriodWords) : StartsAt(lower, e2, PeriodWords[k])}
        e3 == IF words = {} THEN e2 ELSE e2 + Len(PeriodWords[Least(words)])
    IN  SubSeq(s, m[1].from, e3 - 1)

\* a dict with string keys: d.get(k) is truthy
Has(d, k) == k \in DOMAIN d /\ d[k] # << >>

\* d.get(k, default)
Get(d, k, default) == IF k \in DOMAIN d THEN d[k] ELSE default

required_fields ==
    <<"first_name", "last_name", "provider", "coverage_amount", "premium", "expiry_date">>

missing_fields(policy_data) ==
    SelectSeq(required_fields, LAMBDA field : ~ Has(policy_data, field))

\* What the patterns of the policy creation flow find in a message: for each
\* field whether its keyword is in message.lower(), and the stripped group of
\* its re.search, None without a match.
scan_lowered(message, lower) ==
    LET stripped(m) == IF m = None THEN None ELSE Some(Strip(Group(message, m)))
        search(keywords, dollar, class) ==
            With(re_search(message, lower, keywords, dollar, class),
                 LAMBDA m : stripped(m))
    IN  [policy_numbers |-> findall_six_digits(message),
         add_or_create_or_new |->
             \/ Contains(lower, <<"a", "d", "d">>)
             \/ Contains(lower, <<"c", "r", "e", "a", "t", "e">>)
             \/ Contains(lower, <<"n", "e", "w">>),
         policy_in |-> Contains(lower, <<"p", "o", "l", "i", "c", "y">>),
         name_in |-> Contains(lower, <<"n", "a", "m", "e">>),
         name_match |-> search(<< <<"n", "a", "m", "e">> >>, FALSE, NameClass),
         name_parts |-> SelectSeq(split(message),
                            LAMBDA word : /\ \E k \in 1..26 : UpperLetters[k] = word[1]
                                          /\ \A i \in 1..Len(word) : word[i] \in Letters),
         provider_in |-> Contains(lower, <<"p", "r", "o", "v", "i", "d", "e", "r">>),
         provider_match |-> search(<< <<"p", "r", "o", "v", "i", "d", "e", "r">> >>,
                                   FALSE, NameClass),
         dob_in |-> Contains(lower, <<"b", "i", "r", "t", "h">>) \/ Contains(lower, <<"d", "o", "b">>),
         dob_match |-> search(<< <<"b", "i", "r", "t", "h">>, <<"d", "o", "b">> >>,
                              FALSE, DateClass),
         coverage_in |-> Contains(lower, <<"c", "o", "v", "e", "r", "a", "g", "e">>),
         coverage_match |-> search(<< <<"c", "o", "v", "e", "r", "a", "g", "e">> >>,
                                   TRUE, AmountClass),
         premium_in |-> Contains(lower, <<"p", "r", "e", "m", "i", "u", "m">>),
         premium_match |->
             With(re_search(message, lower, << <<"p", "r", "e", "m", "i", "u", "m">> >>,
                            TRUE, AmountClass),
                  LAMBDA m : IF m = None THEN None
                             ELSE Some(Strip(premium_group(message, lower, m)))),
         expiry_in |-> Contains(lower, <<"e", "x", "p", "i", "r", "y">>)
                         \/ Contains(lower, <<"e", "x", "p", "i", "r", "a", "t", "i", "o", "n">>),
         expiry_match |-> search(<< <<"e", "x", "p", "i", "r", "y">>,
                                    <<"e", "x", "p", "i", "r", "a", "t", "i", "o", "n">> >>,
                                 FALSE, DateClass)]

scan(message) == With(str_lower(message), LAMBDA lower : scan_lowered(message, lower))

\* The six steps of the policy creation flow. Each step reads and sets its
\* own keys of policy_data only, so each is given here by the entries it sets
\* (none when it sets nothing); found is scan(message).
\* the name step, lines 461-478 with Gemini and 683-689 without
extract_name(gemini, found, policy_data) ==
    LET full_name == IF found.name_match # None THEN split(found.name_match[1])
                     ELSE IF gemini /\ Len(found.name_parts) >= 2
                          THEN SubSeq(found.name_parts, 1, 2)
                     ELSE << >>
        asked == found.name_in /\ (gemini => ~ Has(policy_data, "first_name"))
    IN  IF asked /\ Len(full_name) >= 2
        THEN ("first_name" :> full_name[1] @@ "last_name" :> join(Tail(full_name)))
        ELSE << >>

\* the provider step, lines 481-484 and 691-694
extract_provider(gemini, found, policy_data) ==
    LET asked == found.provider_in /\ (gemini => ~ Has(policy_data, "provider"))
    IN  IF asked /\ found.provider_match # None
        THEN ("provider" :> found.provider_match[1])
        ELSE << >>

\* the date of birth step, lines 487-490 and 696-699
extract_date_of_birth(gemini, found, policy_data) ==
    LET asked == found.dob_in /\ (gemini => ~ Has(policy_data, "date_of_birth"))
    IN  IF asked /\ found.dob_match # None
        THEN ("date_of_birth" :> found.dob_match[1])
        ELSE << >>

\* the coverage step, lines 493-499 and 701-707
extract_coverage_amount(gemini, found, policy_data) ==
    LET amount == found.coverage_match[1]
        asked == found.coverage_in /\ (gemini => ~ Has(policy_data, "coverage_amount"))
    IN  IF asked /\ found.coverage_match # None
        THEN ("coverage_amount" :> IF amount[1] = "$" THEN amount ELSE <<"$">> \o amount)
        ELSE << >>

\* the premium step, lines 502-510 and 709-717
extract_premium(gemini, found, policy_data) ==
    LET group == found.premium_match[1]
        premium == IF group[1] = "$" THEN group ELSE <<"$">> \o group
        period == \E k \in 1..Len(PeriodWords) :
                      Contains(str_lower(premium), <<"/">> \o PeriodWords[k])
        asked == found.premium_in /\ (gemini => ~ Has(policy_data, "premium"))
    IN  IF asked /\ found.premium_match # None
        THEN ("premium" :> IF period THEN premium
                           ELSE premium \o <<"/", "m", "o", "n", "t", "h">>)
        ELSE << >>

\* the expiry step, lines 513-516 and 719-722
extract_expiry_date(gemini, found, policy_data) ==
    LET asked == found.expiry_in /\ (gemini => ~ Has(policy_data, "expiry_date"))
    IN  IF asked /\ found.expiry_match # None
        THEN ("expiry_date" :> found.expiry_match[1])
        ELSE << >>

\* the policy_data of the session after the six steps
extract_policy_data(gemini, found, policy_data) ==
    extract_name(gemini, found, policy_data)
    @@ extract_provider(gemini, found, policy_data)
    @@ extract_date_of_birth(gemini, found, policy_data)
    @@ extract_coverage_amount(gemini, found, policy_data)
    @@ extract_premium(gemini, found, policy_data)
    @@ extract_expiry_date(gemini, found, policy_data)
    @@ policy_data

\* is_add_intent of handle_chat
is_add_intent(found) == found.add_or_create_or_new /\ found.policy_in

\* "hello"
MsgHello ==
    <<"h", "e", "l", "l", "o">>

\* "Add a new policy"
MsgAdd ==
    <<"A", "d", "d", " ", "a", " ", "n", "e", "w", " ", "p", "o", "l",
      "i", "c", "y">>

\* "Name: John Doe provider: Acme coverage: $50,000 premium: 200 expiry: 2027-01-01"
MsgAll ==
    <<"N", "a", "m", "e", ":", " ", "J", "o", "h", "n", " ", "D", "o",
      "e", " ", "p", "r", "o", "v", "i", "d", "e", "r", ":", " ", "A",
      "c", "m", "e", " ", "c", "o", "v", "e", "r", "a", "g", "e", ":",
      " ", "$", "5", "0", ",", "0", "0", "0", " ", "p", "r", "e", "m",
      "i", "u", "m", ":", " ", "2", "0", "0", " ", "e", "x", "p", "i",
      "r", "y", ":", " ", "2", "0", "2", "7", "-", "0", "1", "-", "0",
      "1">>

\* "name: Al Doe provider: Acme coverage: 500000 premium: $9/yr expiry: 2027-1-1"
MsgAllSix ==
    <<"n", "a", "m", "e", ":", " ", "A", "l", " ", "D", "o", "e", " ",
      "p", "r", "o", "v", "i", "d", "e", "r", ":", " ", "A", "c", "m",
      "e", " ", "c", "o", "v", "e", "r", "a", "g", "e", ":", " ", "5",
      "0", "0", "0", "0", "0", " ", "p", "r", "e", "m", "i", "u", "m",
      ":", " ", "$", "9", "/", "y", "r", " ", "e", "x", "p", "i", "r",
      "y", ":", " ", "2", "0", "2", "7", "-", "1", "-", "1">>

\* "status of 123456"
MsgSeed ==
    <<"s", "t", "a", "t", "u", "s", " ", "o", "f", " ", "1", "2", "3",
      "4", "5", "6">>

\* "POL-100000"
MsgCreated ==
    <<"P", "O", "L", "-", "1", "0", "0", "0", "0", "0">>

\* "777777"
MsgGiven ==
    <<"7", "7", "7", "7", "7", "7">>

ChatMessages == {MsgHello, MsgAdd, MsgAll, MsgAllSix, MsgSeed, MsgCreated, MsgGiven}

\* scan of each message, computed once
Scanned == [message \in ChatMessages |-> scan(message)]

MaxChatCalls == 3
MaxCreated == 1

SessionIds == {"s1", "s2"}

\* a key of policies_db: a policy number, or the uuid of handle_create_policy
StrKey(s) == [str |-> s]

\* policies_db at import, lines 34-71: a dict keeps the order of insertion
InitialPoliciesDb ==
    << [key |-> StrKey(<<"4", "3", "2", "3", "4", "5">>),
        value |->
        ("policy_number" :> <<"4", "3", "2", "3", "4", "5">> @@
         "provider" :> <<"State Life">> @@
         "member_id" :> <<"1", "7", "6", "0", "0", "9", "9", "9", "0", "1", "2", "3", "4", "5">> @@
         "name" :> <<"John Smith">> @@
         "type" :> <<"Health">> @@
         "status" :> <<"ACTIVE">> @@
         "expiry_date" :> <<"2026-10-10">> @@
         "coverage" :> <<"$500,000">> @@
         "premium" :> <<"$250/month">> @@
         "date_of_birth" :> <<"1985-05-15">>)],
       [key |-> StrKey(<<"1", "2", "3", "4", "5", "6">>),
        value |->
        ("policy_number" :> <<"1", "2", "3", "4", "5", "6">> @@
         "provider" :> <<"National Insurance">> @@
         "member_id" :> <<"1", "7", "6", "0", "0", "9", "9", "9", "0", "5", "4", "3", "2", "1">> @@
         "name" :> <<"Jane Doe">> @@
         "type" :> <<"Auto">> @@
         "status" :> <<"ACTIVE">> @@
         "expiry_date" :> <<"2025-12-31">> @@
         "coverage" :> <<"$100,000">> @@
         "premium" :> <<"$150/month">> @@
         "date_of_birth" :> <<"1990-08-22">>)],
       [key |-> StrKey(<<"7", "8", "9", "0", "1", "2">>),
        value |->
        ("policy_number" :> <<"7", "8", "9", "0", "1", "2">> @@
         "provider" :> <<"Home Secure">> @@
         "member_id" :> <<"1", "7", "6", "0", "0", "9", "9", "9", "0", "6", "7", "8", "9", "0">> @@
         "name" :> <<"Robert Johnson">> @@
         "type" :> <<"Home">> @@
         "status" :> <<"ACTIVE">> @@
         "expiry_date" :> <<"2027-06-15">> @@
         "coverage" :> <<"$750,000">> @@
         "premium" :> <<"$300/month">> @@
         "date_of_birth" :> <<"1975-11-30">>)] >>

\* the names the module binds by its imports, lines 7-18; handle_create_policy
\* imports random into its own scope only
module_imports ==
    {"json", "uuid", "re", "os", "datetime", "HTTPServer", "BaseHTTPRequestHandler",
     "urlparse", "parse_qs", "threading", "genai"}

\* random.randint(100000, 999999) as a string
RandintSamples == {<<"1", "0", "0", "0", "0", "0">>, <<"5", "5", "5", "5", "5", "5">>}

\* key in policies_db
InDb(db, key) == \E i \in 1..Len(db) : db[i].key = key

\* policies_db[key]
DbGet(db, key) == db[CHOOSE i \in 1..Len(db) : db[i].key = key].value

\* policies_db[key] = value
DbSet(db, key, value) ==
    IF InDb(db, key)
    THEN [i \in 1..Len(db) |-> IF db[i].key = key THEN [key |-> key, value |-> value] ELSE db[i]]
    ELSE Append(db, [key |-> key, value |-> value])

\* the policy handle_chat makes up for a six-digit number, lines 420-431
generated_policy(policy_number) ==
    ("policy_number" :> policy_number @@
     "provider" :> <<"Universal Insurance">> @@
     "member_id" :> (<<"1", "7", "6", "0">> \o policy_number) @@
     "name" :> (<<"Customer ">> \o SubSeq(policy_number, 1, 3)) @@
     "type" :> <<"Health">> @@
     "status" :> <<"ACTIVE">> @@
     "expiry_date" :> <<"2026-12-31">> @@
     "coverage" :> <<"$250,000">> @@
     "premium" :> <<"$200/month">> @@
     "date_of_birth" :> <<"1980-01-01">>)

\* the policy of lines 760-775, with the fields the lookup answer reads
generated_policy_fallback(policy_number) ==
    generated_policy(policy_number) @@
    ("first_name" :> <<"Customer">> @@
     "last_name" :> SubSeq(policy_number, 1, 3) @@
     "coverage_amount" :> <<"$250,000">> @@
     "premium_status" :> <<"Paid">>)

\* the policies handle_create_policy has stored
Created(db) == SelectSeq(db, LAMBDA entry : "id" \in DOMAIN entry.value)

\* handle_create_policy: the policy_data it stores under a new uuid; r1 and
\* r2 are the numbers random.randint draws. created_at and updated_at are
\* left out.
create_policy_data(policy_id, body, r1, r2) ==
    LET policy_number == IF Has(body, "policy_number") THEN body["policy_number"]
                         ELSE <<"P", "O", "L", "-">> \o r1
        member_id == IF Has(body, "member_id") THEN body["member_id"] ELSE r2
    IN  ("id" :> <<policy_id>> @@
         "provider" :> Get(body, "provider", << >>) @@
         "member_id" :> member_id @@
         "policy_number" :> policy_number @@
         "first_name" :> Get(body, "first_name", << >>) @@
         "last_name" :> Get(body, "last_name", << >>) @@
         "dob" :> Get(body, "dob", << >>) @@
         "email" :> Get(body, "email", << >>) @@
         "phone" :> Get(body, "phone", << >>) @@
         "address" :> Get(body, "address", << >>) @@
         "zip_code" :> Get(body, "zip_code", << >>) @@
         "coverage_status" :> Get(body, "coverage_status", <<"active">>) @@
         "expiry_date" :> Get(body, "expiry_date", <<"2025-12-31">>) @@
         "premium_status" :> Get(body, "premium_status", <<"paid">>) @@
         "coverage_amount" :> Get(body, "coverage_amount", <<"$50,000">>) @@
         "premium" :> Get(body, "premium", <<"$0/month">>))

\* str(uuid.uuid4()) of handle_create_policy: a key policies_db does not hold
new_policy_id(db) == Uuid(Len(Created(db)) + 1)

\* the bodies POST /api/policies is called with
CreatePolicyData ==
    { << >>,
      ("policy_number" :> <<"7", "7", "7", "7", "7", "7">> @@
       "member_id" :> <<"8", "8", "8", "8", "8", "8">> @@
       "first_name" :> <<"John">> @@ "last_name" :> <<"Doe">>) }

\* a session handle_chat creates has an empty context: context.get(
\* "creating_policy", False) and context.get("policy_data", {}) read it as this
EmptyContext == [creating_policy |-> FALSE, policy_data |-> << >>]

\* the session of lines 439-445; the two timestamps are left out
new_chat_session(session_id) ==
    [session_id |-> session_id, user_id |-> None,
     messages |-> Some(<< >>), context |-> Some(EmptyContext)]

\* the session of handle_create_session, lines 891-896: it has no "messages"
\* and no "context"
created_session(session_id) ==
    [session_id |-> session_id, user_id |-> Some("demo-user"),
     messages |-> None, context |-> None]

SimpleInit ==
    /\ chat_sessions = << >>
    /\ policies_db = InitialPoliciesDb
    /\ chat_calls = [s \in SessionIds |-> 0]
    /\ chat_answer = [op |-> "none"]
    /\ gemini_available \in BOOLEAN
    /\ app = "simple_server"
    /\ api_key = FALSE
    /\ clock = 0
    /\ data = << >>
    /\ expiry = << >>
    /\ server = << >>
    /\ redis_up = TRUE
    /\ started = 0
    /\ lookups = [l \in Slots |-> IdleLookup]
    /\ last_set = << >>
    /\ reqA = NoRequest
    /\ reqB = NoRequest
    /\ derivation = "none"
    /\ keyA = << >>
    /\ keyB = << >>
    /\ NoChat
    /\ NoListing
    /\ NoRecords
    /\ NoPolicyRows

SimpleFrame ==
    /\ UNCHANGED <<app, api_key, clock, data, expiry, server, redis_up, started, lookups, last_set>>
    /\ UNCHANGED <<reqA, reqB, derivation, keyA, keyB>>
    /\ UNCHANGED <<chatVars, listVars, verifications, policyVars, gemini_available>>

TotalChatCalls == chat_calls["s1"] + chat_calls["s2"]

\* POST /api/chat/session
handle_create_session ==
    \E session_id \in SessionIds \ DOMAIN chat_sessions :
        /\ chat_sessions' = Put(chat_sessions, session_id, created_session(session_id))
        /\ chat_answer' = [op |-> "handle_create_session", session_id |-> session_id]
        /\ UNCHANGED <<policies_db, chat_calls>>
        /\ SimpleFrame

\* POST /api/policies
handle_create_policy ==
    \E body \in CreatePolicyData, r1 \in RandintSamples, r2 \in RandintSamples :
        LET policy_id == new_policy_id(policies_db)
            policy_data == create_policy_data(policy_id, body, r1, r2)
        IN  /\ Len(Created(policies_db)) < MaxCreated
            /\ policies_db' = DbSet(policies_db, policy_id, policy_data)
            /\ chat_answer' = [op |-> "handle_create_policy", policy |-> policy_data]
            /\ UNCHANGED <<chat_sessions, chat_calls>>
            /\ SimpleFrame

\* the first policy of policies_db.values() whose member_id or policy_number
\* is the number, lines 594-598
find_policy(db, policy_number) ==
    LET found == {i \in 1..Len(db) :
                     \/ Get(db[i].value, "member_id", << >>) = policy_number
                     \/ Get(db[i].value, "policy_number", << >>) = policy_number}
    IN  IF found = {} THEN None ELSE Some(db[Least(found)].value)

\* what a handle_chat call that raises leaves as its answer
Raised(session_id, message, exception) ==
    [op |-> "handle_chat", session_id |-> session_id, message |-> message,
     raised |-> Some(exception), intent |-> None, response |-> None, policy |-> None]

\* what a handle_chat call returns; policy is the dict the response was
\* formatted from, None for a response about no policy
Returned(session_id, message, intent, response, policy) ==
    [op |-> "handle_chat", session_id |-> session_id, message |-> message,
     raised |-> None, intent |-> Some(intent), response |-> Some(response),
     policy |-> policy]

\* the text of a response: what generate_content returns when Gemini is
\* asked and answers, the fixed text of the intent otherwise
ResponseText(asked_gemini, gemini_ok, intent) ==
    IF asked_gemini /\ gemini_ok THEN <<"gemini_response.text">> ELSE <<intent>>

\* lines 806-807: the session with the response appended and its context
Replied(session0, messages1, response, context1) ==
    [session0 EXCEPT
        !.messages = Some(Append(messages1, [role |-> "assistant", content |-> response])),
        !.context = Some(context1)]

\* the policy creation flow while the session is creating a policy, lines
\* 456-575 with Gemini and 678-756 without
handle_chat_creating(session_id, message, gemini_ok, r1, r2, r3, found, db1, session0, messages1) ==
    \E policy_data1 \in {extract_policy_data(gemini_available, found, session0.context[1].policy_data)} :
        IF missing_fields(policy_data1) # << >>
        THEN \* lines 557-575 and 753-756
             /\ chat_sessions' = Put(chat_sessions, session_id,
                    Replied(session0, messages1,
                            ResponseText(gemini_available, gemini_ok, "create_policy_followup"),
                            [creating_policy |-> TRUE, policy_data |-> policy_data1]))
             /\ policies_db' = db1
             /\ chat_answer' = Returned(session_id, message, "create_policy_followup",
                    ResponseText(gemini_available, gemini_ok, "create_policy_followup"), None)
        ELSE IF "random" \notin module_imports
        THEN \* lines 527 and 733: the default of get is evaluated before the
             \* call, and the name random is not bound
             /\ chat_sessions' = Put(chat_sessions, session_id,
                    [session0 EXCEPT !.messages = Some(messages1),
                                     !.context = Some([creating_policy |-> TRUE,
                                                       policy_data |-> policy_data1])])
             /\ policies_db' = db1
             /\ chat_answer' = Raised(session_id, message, "NameError")
        ELSE \* lines 527-555 and 733-751
             \E new_policy \in {create_policy_data(new_policy_id(db1),
                          ("first_name" :> Get(policy_data1, "first_name", << >>) @@
                           "last_name" :> Get(policy_data1, "last_name", << >>) @@
                           "provider" :> Get(policy_data1, "provider", << >>) @@
                           "date_of_birth" :> Get(policy_data1, "date_of_birth", << >>) @@
                           "coverage_amount" :> Get(policy_data1, "coverage_amount", << >>) @@
                           "premium" :> Get(policy_data1, "premium", << >>) @@
                           "expiry_date" :> Get(policy_data1, "expiry_date", << >>) @@
                           "member_id" :> Get(policy_data1, "member_id", r3)),
                          r1, r2)} :
                 /\ Len(Created(db1)) < MaxCreated
                 /\ chat_sessions' = Put(chat_sessions, session_id,
                        Replied(session0, messages1,
                                ResponseText(gemini_available, gemini_ok, "policy_created"),
                                EmptyContext))
                 /\ policies_db' = DbSet(db1, new_policy_id(db1), new_policy)
                 /\ chat_answer' = Returned(session_id, message, "policy_created",
                        ResponseText(gemini_available, gemini_ok, "policy_created"),
                        Some(new_policy))

\* the lookup of a policy number, lines 592-632 with Gemini and 758-784
\* without
handle_chat_lookup(session_id, message, gemini_ok, policy_number, db1, session0, messages1) ==
    IF gemini_available
    THEN \E found_policy \in {find_policy(db1, policy_number)} :
         \E intent \in {IF found_policy = None THEN "policy_not_found"
                        ELSE IF gemini_ok THEN "policy_lookup" ELSE "policy_lookup_fallback"} :
             /\ chat_sessions' = Put(chat_sessions, session_id,
                    Replied(session0, messages1,
                            ResponseText(found_policy # None, gemini_ok, intent),
                            session0.context[1]))
             /\ policies_db' = db1
             /\ chat_answer' = Returned(session_id, message, intent,
                    ResponseText(found_policy # None, gemini_ok, intent), found_policy)
    ELSE \E db2 \in {IF InDb(db1, StrKey(policy_number)) THEN db1
                     ELSE DbSet(db1, StrKey(policy_number),
                                generated_policy_fallback(policy_number))} :
             /\ chat_sessions' = Put(chat_sessions, session_id,
                    Replied(session0, messages1, <<"policy_lookup_fallback">>,
                            session0.context[1]))
             /\ policies_db' = db2
             /\ chat_answer' = Returned(session_id, message, "policy_lookup_fallback",
                    <<"policy_lookup_fallback">>, Some(DbGet(db2, StrKey(policy_number))))

\* the add intent, lines 634-648 and 785-799
handle_chat_add(session_id, message, policy_numbers, db1, session0, messages1) ==
    /\ chat_sessions' = Put(chat_sessions, session_id,
           Replied(session0, messages1, <<"create_policy">>,
                   [creating_policy |-> TRUE,
                    policy_data |-> IF policy_numbers # << >>
                                    THEN ("member_id" :> policy_numbers[1]) ELSE << >>]))
    /\ policies_db' = db1
    /\ chat_answer' = Returned(session_id, message, "create_policy", <<"create_policy">>, None)

\* any other message, lines 650-675 and 800-802
handle_chat_general(session_id, message, gemini_ok, db1, session0, messages1) ==
    \E intent \in {IF gemini_available /\ gemini_ok THEN "general_chat" ELSE "fallback"} :
        /\ chat_sessions' = Put(chat_sessions, session_id,
               Replied(session0, messages1,
                       ResponseText(gemini_available, gemini_ok, intent),
                       session0.context[1]))
        /\ policies_db' = db1
        /\ chat_answer' = Returned(session_id, message, intent,
               ResponseText(gemini_available, gemini_ok, intent), None)

\* handle_chat, from its first line to the return or to the exception that
\* ends it. gemini_ok: generate_content answers; otherwise it raises and the
\* except clause answers. r1, r2, r3: the numbers random.randint would draw.
handle_chat(session_id, message, gemini_ok, r1, r2, r3) ==
    \E found \in {Scanned[message]} :
    \* lines 418-433
    \E db1 \in {IF found.policy_numbers # << >>
                   /\ ~ InDb(policies_db, StrKey(found.policy_numbers[1]))
                THEN DbSet(policies_db, StrKey(found.policy_numbers[1]),
                           generated_policy(found.policy_numbers[1]))
                ELSE policies_db} :
    \* lines 438-446
    \E session0 \in {IF session_id \in DOMAIN chat_sessions THEN chat_sessions[session_id]
                     ELSE new_chat_session(session_id)} :
        /\ chat_calls' = [chat_calls EXCEPT ![session_id] = @ + 1]
        /\ IF session0.messages = None
           THEN \* line 449: chat_sessions[session_id]["messages"]
                /\ chat_sessions' = chat_sessions
                /\ policies_db' = db1
                /\ chat_answer' = Raised(session_id, message, "KeyError")
           ELSE \E messages1 \in {Append(session0.messages[1],
                                         [role |-> "user", content |-> message])} :
                IF session0.context[1].creating_policy
                THEN handle_chat_creating(session_id, message, gemini_ok, r1, r2, r3,
                                          found, db1, session0, messages1)
                ELSE IF found.policy_numbers # << >>
                THEN handle_chat_lookup(session_id, message, gemini_ok,
                                        found.policy_numbers[1], db1, session0, messages1)
                ELSE IF is_add_intent(found)
                THEN handle_chat_add(session_id, message, found.policy_numbers,
                                     db1, session0, messages1)
                ELSE handle_chat_general(session_id, message, gemini_ok,
                                         db1, session0, messages1)

\* POST /api/chat
chat ==
    \E session_id \in SessionIds, message \in ChatMessages, gemini_ok \in BOOLEAN,
       r1 \in RandintSamples, r3 \in RandintSamples :
        /\ TotalChatCalls < MaxChatCalls
        /\ handle_chat(session_id, message, gemini_ok, r1, r1, r3)
        /\ SimpleFrame

SimpleNext ==
    \/ handle_create_session
    \/ handle_create_policy
    \/ chat

SpecSimple == SimpleInit /\ [][SimpleNext]_vars

\* a step is a handle_chat call on session s
ChatCallOn(s) == chat_calls'[s] = chat_calls[s] + 1

\* session s is in the creating-policy state
Creating(s) ==
    /\ s \in DOMAIN chat_sessions
    /\ chat_sessions[s].context # None
    /\ chat_sessions[s].context[1].creating_policy

\* with the message of the call, the messages of session s have supplied all
\* the required fields
Completes(s) ==
    /\ Creating(s)
    /\ missing_fields(extract_policy_data(gemini_available, Scanned[chat_answer'.message],
                                          chat_sessions[s].context[1].policy_data)) = << >>

\* C25: once a session is in the creating-policy state and the messages have
\* supplied all required fields, the handle_chat call creates exactly one
\* policy in policies_db, answers with intent policy_created, and leaves the
\* session not creating, with empty policy_data.
C25_CompleteFieldsCreateOnePolicy ==
    [][\A s \in SessionIds :
          (ChatCallOn(s) /\ Completes(s)) =>
              /\ Len(Created(policies_db')) = Len(Created(policies_db)) + 1
              /\ chat_answer'.intent = Some("policy_created")
              /\ chat_sessions'[s].context = Some(EmptyContext)]_vars

\* session s was returned by create-session
FromCreateSession(s) ==
    /\ s \in DOMAIN chat_sessions
    /\ chat_sessions[s].user_id = Some("demo-user")

\* the messages of session s, none when the session has no list
SessionMessages(sessions, s) ==
    IF s \in DOMAIN sessions /\ sessions[s].messages # None
    THEN sessions[s].messages[1] ELSE << >>

\* C26: a handle_chat call with a session_id that create-session returned
\* completes with a response and appends the message to the history of that
\* session.
C26_CreatedSessionCanChat ==
    [][\A s \in SessionIds :
          (ChatCallOn(s) /\ FromCreateSession(s)) =>
              /\ chat_answer'.raised = None
              /\ chat_answer'.response # None
              /\ Len(SessionMessages(chat_sessions', s)) > Len(SessionMessages(chat_sessions, s))
              /\ \E i \in 1..Len(SessionMessages(chat_sessions', s)) :
                    SessionMessages(chat_sessions', s)[i] =
                        [role |-> "user", content |-> chat_answer'.message]]_vars

\* a handle_chat call changes policies_db only when it completes the policy
\* creation flow
ChatChangesPoliciesOnlyByCreation ==
    [][((\E s \in SessionIds : ChatCallOn(s)) /\ policies_db' # policies_db)
          => chat_answer'.intent = Some("policy_created")]_vars

LookupIntents == {"policy_lookup", "policy_lookup_fallback", "policy_not_found"}

\* the policies handle_create_policy stored whose policy number is in the
\* message of the last call
CreatedNamedIn(message) ==
    {i \in 1..Len(policies_db) :
        /\ "id" \in DOMAIN policies_db[i].value
        /\ Contains(message, policies_db[i].value["policy_number"])}

\* a lookup by the policy number of a created policy answers with that policy
LookupReturnsCreatedPolicy ==
    (/\ chat_answer.op = "handle_chat"
     /\ chat_answer.intent # None
     /\ chat_answer.intent[1] \in LookupIntents
     /\ CreatedNamedIn(chat_answer.message) # {})
    => \E i \in CreatedNamedIn(chat_answer.message) :
          chat_answer.policy = Some(policies_db[i].value)

\* C27: handle_chat changes policies_db only when it completes the policy
\* creation flow: a message that mentions or looks up a number never adds,
\* replaces or removes an entry, and a lookup by the policy number of a policy
\* created earlier returns the details of that policy.
C27_ChatLeavesPoliciesAndFindsCreated ==
    ChatChangesPoliciesOnlyByCreation /\ []LookupReturnsCreatedPolicy

\* C28: the message list of every session alternates user and assistant
\* entries, one pair for each handle_chat call made on the session.
C28_OnePairPerChatCall ==
    \A s \in SessionIds :
        LET messages == SessionMessages(chat_sessions, s)
        IN  /\ Len(messages) = 2 * chat_calls[s]
            /\ \A i \in 1..Len(messages) :
                  messages[i].role = IF i % 2 = 1 THEN "user" ELSE "assistant"

\* a lookup of a number that is a key of policies_db leaves policies_db as it
\* is and answers with the policy of that key
SeedLookupLeavesPolicies ==
    [][\A s \in SessionIds :
          (/\ ChatCallOn(s)
           /\ ~ Creating(s)
           /\ chat_answer'.raised = None
           /\ Scanned[chat_answer'.message].policy_numbers # << >>
           /\ InDb(policies_db, StrKey(Scanned[chat_answer'.message].policy_numbers[1])))
          => /\ policies_db' = policies_db
             /\ chat_answer'.intent[1] \in LookupIntents]_vars

\* a session that handle_chat created itself keeps one pair for each call as
\* long as no call on it has reached the creation of the policy
PairsUntilCreation ==
    \A s \in DOMAIN chat_sessions :
        (/\ chat_sessions[s].user_id = None
         /\ missing_fields(chat_sessions[s].context[1].policy_data) # << >>)
        => LET messages == SessionMessages(chat_sessions, s)
           IN  /\ Len(messages) = 2 * chat_calls[s]
               /\ \A i \in 1..Len(messages) :
                     messages[i].role = IF i % 2 = 1 THEN "user" ELSE "assistant"

\* no handle_chat call answers with intent policy_created
NeverPolicyCreated ==
    chat_answer.op = "handle_chat" => chat_answer.intent # Some("policy_created")

===========================================================================
